---- MODULE Spec2Model ----
(***************************************************************************)
(* A model of the aquarium simulator (HectorHW/aquarium): the world grid,  *)
(* the organism virtual machine, the action resolver and the row-major     *)
(* tick scheduler, translated from src/src/cells/{world,organism,code}.rs. *)
(*                                                                         *)
(* The struct World is the record `world`; World::tick is the loop whose   *)
(* iterations `scan` counts and whose body (one cell) is the action        *)
(* TickLoop.  The body is at row `row`, the loop variable i, which the     *)
(* body overwrites with the row process_bot returns, and at column         *)
(* scan % width.                                                           *)
(* Every thread_rng() draw of the code is an input of the step, drawn from *)
(* a bounded set.  A failed unwrap() sets `panicked`.                      *)
(***************************************************************************)
EXTENDS Integers, Sequences, FiniteSets, TLC

VARIABLES
    world,      \* struct World: field.inner, width, iteration, updates, config, measure_steps
    scan,       \* World::tick: number of loop iterations done in the tick under way, i0 * width + j
                \* for the values i0 and j the two ranges give next (0: between ticks)
    row,        \* World::tick: the loop variable i at the start of the next iteration
    panicked,   \* TRUE once an unwrap() of None was reached
    execs,      \* history: execs[id] = VM executions of organism id in the tick under way
    born,       \* history: ids of the organisms created in the tick under way
    visited,    \* history: linear indices of the cells the loop body was at in the tick under way
    last,       \* history: what the last scheduler step did
    hits,       \* history: number of aging-damage events so far
    populated,  \* history: number of organisms populate_* created so far
    shiftIn,    \* input of the last relative_shift call of the SpecShift harness
    shiftOut,   \* its result
    pre,        \* history: the world before the last step of SpecStep and SpecPopulate
    server,     \* struct ServerState but for the world, the mutex around it and its tasks
    internal_buffer,  \* ObjectCache::internal_buffer: the stored slots, oldest first
    printing    \* the program, the argument and the locals of Program::print_minimized

vars == <<world, scan, row, panicked, execs, born, visited, last, hits, populated, shiftIn, shiftOut,
          pre, server, internal_buffer, printing>>

(***************************************************************************)
(* Bounds of the model.                                                    *)
(***************************************************************************)
\* World::tick is run at most MaxTicks times in a behaviour.
MaxTicks == 2
\* populate_* creates at most MaxPopulated organisms in a behaviour.
MaxPopulated == 1
\* A random byte (register r3) is drawn from 0..MaxRand.
MaxRand == 3
\* Aging damage hits a position 0..MaxMutPos of a program.
MaxMutPos == 0
\* A lossy copy replaces instructions at any of the positions 0..MaxLossyPos.
MaxLossyPos == 1
\* At most MaxDamage aging-damage events happen in a behaviour.
MaxDamage == 1
\* Grids of the SpecShift harness have 1..MaxDim rows and columns.
MaxDim == 3
\* The starvation runs go on for StarveTicks ticks.
StarveTicks == 11
\* The mineral runs go on for MineralTicks ticks.
MineralTicks == 3
\* The photosynthesis runs go on for GreenTicks ticks.
GreenTicks == 10
\* The server runs World::tick at most ServerTicks times.
ServerTicks == 2
\* The runs with a dead body go on for BodyTicks ticks.
BodyTicks == 2
\* The runs with two bots in a row go on for SweepTicks ticks.
SweepTicks == 1
\* The runs with an organism that runs out of energy go on for ZeroTicks ticks.
ZeroTicks == 3
\* The spawn requests of a server run ask for at most ServerSpawns organisms in all.
ServerSpawns == 1
\* One call of populate_* asks for at most MaxRequest organisms.
MaxRequest == 5
\* The organisms that execute Clone hold 0..MaxCloneStock energy and minerals.
MaxCloneStock == 255

(***************************************************************************)
(* Program constants.                                                      *)
(***************************************************************************)
CODE_SIZE == 256
NUM_REGISTERS == 16
BURST == 16
U8 == 256

Min(a, b) == IF a < b THEN a ELSE b

Max_the_smaller(a, b) == IF a < b THEN a ELSE b

Max(a, b) == IF a > b THEN a ELSE b
\* usize::saturating_sub
saturating_sub(a, b) == IF a > b THEN a - b ELSE 0
\* usize::wrapping_add: the sum wraps at 2^64, which no behaviour of the model
\* (at most MaxTicks + 1 for the iteration counter) comes near
wrapping_add(a, b) == a + b

(***************************************************************************)
(* Direction (organism.rs).                                                *)
(***************************************************************************)
Directions == {"Up", "Right", "Down", "Left"}

next_clockwise(d) ==
    CASE d = "Up" -> "Right"
      [] d = "Down" -> "Left"
      [] d = "Left" -> "Up"
      [] d = "Right" -> "Down"

as_shift(d) ==
    CASE d = "Up" -> <<-1, 0>>
      [] d = "Down" -> <<1, 0>>
      [] d = "Left" -> <<0, -1>>
      [] d = "Right" -> <<0, 1>>

inverse_same(d) == d

\* Direction::inverse
inverse(d) == next_clockwise(next_clockwise(d))

\* impl From<u8> for Direction
direction_from_u8(n) ==
    CASE n % 4 = 0 -> "Up"
      [] n % 4 = 1 -> "Right"
      [] n % 4 = 2 -> "Down"
      [] OTHER -> "Left"

\* impl From<Direction> for u8
direction_into_u8(d) ==
    CASE d = "Up" -> 0
      [] d = "Right" -> 1
      [] d = "Down" -> 2
      [] d = "Left" -> 3

(***************************************************************************)
(* OpCode and Program (code.rs).  An opcode without a parameter carries    *)
(* arg = 0.                                                                *)
(***************************************************************************)
Op(name, arg) == [op |-> name, arg |-> arg]

OpNames == {"LoadInt", "CopyRegisters", "Add", "AddClip", "SubClip", "Flip",
            "JumpUnconditional", "SkipZero", "MoveRelative", "LookRelative",
            "Eat", "Clone", "Compare", "UseMinerals", "Share", "ShareMinerals",
            "Sythesize"}

ParamOps == {"LoadInt", "CopyRegisters", "Add", "AddClip", "SubClip", "Flip",
             "JumpUnconditional", "SkipZero", "Clone"}

\* PackedAdressPair::unwrap
pair_unwrap(b) == <<b \div 16, b % 16>>
\* PackedAddress::unwrap
addr_unwrap(b) == b % 16

(***************************************************************************)
(* Program: the array [OpCode; CODE_SIZE] is held as the record            *)
(* [head, fill]: its first Len(head) opcodes, and the opcode every later   *)
(* position holds.  code_at reads a position, code_set writes one and      *)
(* keeps the form canonical (head never ends with fill), so that equal     *)
(* arrays are equal records.                                               *)
(***************************************************************************)
\* self.code[k]
code_at(code, k) == IF k < Len(code.head) THEN code.head[k + 1] ELSE code.fill

RECURSIVE strip_fill(_, _)
strip_fill(head, fill) ==
    IF head # <<>> /\ head[Len(head)] = fill
    THEN strip_fill(SubSeq(head, 1, Len(head) - 1), fill)
    ELSE head

\* self.code[k] = op
code_set(code, k, op) ==
    LET padded == [q \in 1..Max(Len(code.head), k + 1) |->
                      IF q = k + 1 THEN op
                      ELSE IF q <= Len(code.head) THEN code.head[q] ELSE code.fill]
    IN  [head |-> strip_fill(padded, code.fill), fill |-> code.fill]

\* [op; CODE_SIZE]
uniform_program(op) == [head |-> <<>>, fill |-> op]

\* a program that starts with the opcodes of `prefix` and goes on with `fill`
program_of(prefix, fill) == [head |-> strip_fill(prefix, fill), fill |-> fill]

\* the expression of Organism::with_program that computes can_clone
has_clone(code) ==
    \/ \E k \in 1..Len(code.head) : code.head[k].op = "Clone"
    \/ Len(code.head) < CODE_SIZE /\ code.fill.op = "Clone"

(***************************************************************************)
(* WorldConfig (world.rs), with the closures of main.rs and of the         *)
(* scenarios: split_behaviour is energy > split_threshold =>               *)
(* Ok((energy / 2, minerals / 2)); light and minerals are "main" (the      *)
(* closures of main.rs) or a constant.                                     *)
(***************************************************************************)
Const(v) == [kind |-> "const", v |-> v]
MainClosure == [kind |-> "main", v |-> 0]

\* main.rs: the configuration the server starts with
MainConfig ==
    [start_energy |-> 40, dead_energy |-> 20, split_threshold |-> 200,
     light_behaviour |-> MainClosure, minerals_behaviour |-> MainClosure,
     mutation_chance |-> 1, aging |-> TRUE,
     max_cell_size |-> 500, max_minerals |-> 100, attack_cost |-> 10]

\* the configuration of the end-to-end scenarios
ScenarioConfig ==
    [start_energy |-> 40, dead_energy |-> 20, split_threshold |-> 200,
     light_behaviour |-> Const(3), minerals_behaviour |-> Const(0),
     mutation_chance |-> 0, aging |-> FALSE,
     max_cell_size |-> 500, max_minerals |-> 100, attack_cost |-> 10]

\* a configuration with small thresholds: every resource limit is met within two ticks
SmallConfig ==
    [start_energy |-> 4, dead_energy |-> 2, split_threshold |-> 7,
     light_behaviour |-> Const(5), minerals_behaviour |-> Const(3),
     mutation_chance |-> 0, aging |-> FALSE,
     max_cell_size |-> 10, max_minerals |-> 4, attack_cost |-> 1]

\* config.split_behaviour
split_behaviour(config, energy, minerals) ==
    IF energy > config.split_threshold
    THEN [ok |-> TRUE, energy |-> energy \div 2, minerals |-> minerals \div 2]
    ELSE [ok |-> FALSE, energy |-> 0, minerals |-> 0]

\* World::get_light
get_light(config, i) ==
    IF config.light_behaviour.kind = "main"
    THEN saturating_sub(3, i \div 10)
    ELSE config.light_behaviour.v

\* World::get_minerals (main.rs: rows 0..49)
get_minerals(config, i) ==
    IF config.minerals_behaviour.kind = "main"
    THEN saturating_sub(3, (50 - i - 1) \div 10)
    ELSE config.minerals_behaviour.v

(***************************************************************************)
(* Cells (WorldCellInner).                                                 *)
(***************************************************************************)
Empty == [kind |-> "Empty"]
DeadBody(e, m) == [kind |-> "DeadBody", energy |-> e, minerals |-> m]
IsEmpty(c) == c.kind = "Empty"
IsOrganism(c) == c.kind = "Organism"
IsDeadBody(c) == c.kind = "DeadBody"

\* Option<(usize, usize)>
None == [some |-> FALSE, val |-> <<0, 0>>]
Some(v) == [some |-> TRUE, val |-> v]

(***************************************************************************)
(* WorldField (world.rs): inner is the Vec of cells, indexed i * width + j.*)
(***************************************************************************)
field_index(f, pos) == pos[1] * f.width + pos[2]
field_len(f) == Cardinality(DOMAIN f.inner)
get_width(f) == f.width
get_height(f) == field_len(f) \div f.width
cell_at(f, pos) == f.inner[field_index(f, pos)]

relative_shift_vertical_only(f, pos, direction) ==
    IF direction = "Down" /\ pos[1] = get_height(f) - 1 THEN None
    ELSE IF direction = "Up" /\ pos[1] = 0 THEN None
    ELSE IF direction \in {"Left", "Right"}
              /\ (pos[2] + as_shift(direction)[2] < 0
                  \/ pos[2] + as_shift(direction)[2] >= get_width(f)) THEN None
    ELSE Some(<<pos[1] + as_shift(direction)[1], pos[2] + as_shift(direction)[2]>>)

relative_shift_torus(f, pos, direction) ==
    Some(<<(pos[1] + as_shift(direction)[1] + get_height(f)) % get_height(f),
           (pos[2] + as_shift(direction)[2] + get_width(f)) % get_width(f)>>)

\* WorldField::relative_shift
relative_shift(f, pos, direction) ==
    IF direction = "Down" /\ pos[1] = get_height(f) - 1 THEN None
    ELSE IF direction = "Up" /\ pos[1] = 0 THEN None
    ELSE LET shift == as_shift(direction)
             i1 == pos[1] + shift[1]
             j1 == pos[2] + shift[2]
             i2 == i1 + get_height(f)
             j2 == j1 + get_width(f)
         IN  Some(<<i2 % get_height(f), j2 % get_width(f)>>)

(***************************************************************************)
(* Organism (organism.rs).  `id` is a history field: it names the organism *)
(* and is read by no operation.                                            *)
(***************************************************************************)
zero_registers == [r \in 0..(NUM_REGISTERS - 1) |-> 0]

\* Organism::with_program
with_program(energy, minerals, program, id) ==
    [kind |-> "Organism", registers |-> zero_registers, code |-> program, ip |-> 0,
     energy |-> energy, stored_minerals |-> minerals,
     can_clone |-> has_clone(program), id |-> id]

\* Organism::green
green(energy, id) == with_program(energy, 0, uniform_program(Op("Sythesize", 0)), id)

\* Organism::random, for the program the generator drew
random(energy, program, id) ==
    [kind |-> "Organism", registers |-> zero_registers, code |-> program, ip |-> 0,
     energy |-> energy, stored_minerals |-> 0,
     can_clone |-> has_clone(program), id |-> id]

\* into_u8_fraction
into_u8_fraction(value, divisor) ==
    LET q == (value * 255) \div divisor
    IN  IF q < 0 THEN 0 ELSE IF q > 255 THEN 255 ELSE q

\* Organism::next_instruction
next_instruction(bot) == [bot EXCEPT !.ip = (bot.ip + 1) % CODE_SIZE]

jump_past(bot, delta) == [bot EXCEPT !.ip = (bot.ip + delta + 1) % CODE_SIZE]

\* Organism::jump
jump(bot, delta) == [bot EXCEPT !.ip = (bot.ip + delta) % CODE_SIZE]

\* Organism::get_direction
get_direction(bot) == direction_from_u8(bot.registers[2])

\* Organism::add_energy
add_energy(bot, energy) == [bot EXCEPT !.energy = bot.energy + energy]

\* Organism::decrease_energy
decrease_energy(bot, energy) == [bot EXCEPT !.energy = saturating_sub(bot.energy, energy)]

add_minerals_unclamped(bot, minerals, limit) ==
    [bot EXCEPT !.stored_minerals = bot.stored_minerals + minerals]

\* Organism::add_minerals
add_minerals(bot, minerals, limit) ==
    [bot EXCEPT !.stored_minerals = Min(bot.stored_minerals + minerals, limit)]

\* Organism::register_attack
register_attack(bot, direction) ==
    [bot EXCEPT !.registers[7] = direction_into_u8(direction)]

set_reg(bot, r, v) == [bot EXCEPT !.registers[r] = v]

\* WorldField::look_relative, as an Option of a cell
look_relative(f, pos, direction) ==
    LET p == relative_shift(f, pos, direction)
    IN  IF p.some THEN [some |-> TRUE, cell |-> cell_at(f, p.val)]
        ELSE [some |-> FALSE, cell |-> Empty]

NoAction == [type |-> "None", dir |-> "Up", a |-> 0, b |-> 0]
Action(type, dir, a, b) == [type |-> type, dir |-> dir, a |-> a, b |-> b]

\* the number of positions at which two programs differ (Compare)
count_differing(c1, c2) ==
    Cardinality({k \in 0..(CODE_SIZE - 1) : code_at(c1, k) # code_at(c2, k)})

(***************************************************************************)
(* One instruction of Organism::tick: the match arm of code[ip].  The      *)
(* result says whether tick returns (done) and with which action.  w is    *)
(* the world the bot looks at: the cell at pos holds the bot as it was     *)
(* when tick was called.                                                   *)
(***************************************************************************)
Continue(bot) == [bot |-> bot, done |-> FALSE, action |-> NoAction]
Return(bot, action) == [bot |-> bot, done |-> TRUE, action |-> action]

exec_instruction(bot, w, pos) ==
    LET instr == code_at(bot.code, bot.ip)
        n == instr.arg
        b1 == next_instruction(bot)
        pr == pair_unwrap(n)
        from == pr[1]
        to == pr[2]
        seen == look_relative(w.field, pos, get_direction(b1))
    IN  CASE instr.op = "LoadInt" -> Continue(set_reg(b1, 0, n))
          [] instr.op = "CopyRegisters" -> Continue(set_reg(b1, to, b1.registers[from]))
          [] instr.op = "MoveRelative" ->
                Return(b1, Action("TryMove", get_direction(b1), 0, 0))
          [] instr.op = "LookRelative" ->
                IF ~seen.some THEN Continue(set_reg(b1, 0, 255))
                ELSE IF IsEmpty(seen.cell) THEN Continue(set_reg(b1, 0, 0))
                ELSE IF IsOrganism(seen.cell)
                     THEN Continue(set_reg(
                              set_reg(b1, 1, into_u8_fraction(seen.cell.energy,
                                                              w.config.max_cell_size)),
                              0, 1))
                ELSE Continue(set_reg(b1, 0, 2))
          [] instr.op = "Eat" -> Return(b1, Action("TryEat", get_direction(b1), 0, 0))
          [] instr.op = "Sythesize" ->
                Return(add_energy(b1, get_light(w.config, pos[1])), NoAction)
          [] instr.op = "Add" ->
                Continue(set_reg(b1, from, (b1.registers[from] + b1.registers[to]) % U8))
          [] instr.op = "AddClip" ->
                Continue(set_reg(b1, from, Min(b1.registers[from] + b1.registers[to], U8 - 1)))
          [] instr.op = "SubClip" ->
                Continue(set_reg(b1, from, saturating_sub(b1.registers[from], b1.registers[to])))
          [] instr.op = "Flip" ->
                Continue(set_reg(b1, addr_unwrap(n),
                                 IF b1.registers[addr_unwrap(n)] # 0 THEN 1 ELSE 0))
          [] instr.op = "JumpUnconditional" -> Continue(jump(bot, n))
          [] instr.op = "SkipZero" ->
                IF bot.registers[addr_unwrap(n)] = 0
                THEN Continue(jump(bot, 2))
                ELSE Continue(b1)
          [] instr.op = "Clone" ->
                Return(b1, Action("TryClone", get_direction(b1),
                           Max(w.config.start_energy, ((bot.energy * n) \div 256) \div 2),
                           ((bot.stored_minerals * n) \div 256) \div 2))
          [] instr.op = "Compare" ->
                IF seen.some /\ IsOrganism(seen.cell)
                THEN Continue(set_reg(
                         set_reg(b1, 1, into_u8_fraction(seen.cell.energy,
                                                         w.config.max_cell_size)),
                         0, Max(count_differing(bot.code, seen.cell.code), 255) % U8))
                ELSE IF seen.some /\ IsDeadBody(seen.cell)
                     THEN Continue(set_reg(b1, 0, 255))
                ELSE Continue(set_reg(b1, 0, 0))
          [] instr.op = "UseMinerals" ->
                LET k == Min(b1.registers[0], b1.stored_minerals)
                IN  Return([add_energy(b1, k) EXCEPT !.stored_minerals = b1.stored_minerals - k],
                           NoAction)
          [] instr.op = "Share" ->
                LET k == Min(b1.registers[0], b1.energy)
                IN  Return([b1 EXCEPT !.energy = b1.energy - k],
                           Action("ShareEnergy", get_direction(b1), k, 0))
          [] instr.op = "ShareMinerals" ->
                LET k == Min(b1.registers[0], b1.stored_minerals)
                IN  Return([b1 EXCEPT !.stored_minerals = b1.stored_minerals - k],
                           Action("ShareMinerals", get_direction(b1), k, 0))

\* the for loop of Organism::tick; `left` iterations remain
RECURSIVE run_burst(_, _, _, _)
run_burst(bot, w, pos, left) ==
    IF left = 0 THEN [bot |-> bot, action |-> NoAction, executed |-> BURST]
    ELSE LET r == exec_instruction(bot, w, pos)
         IN  IF r.done
             THEN [bot |-> r.bot, action |-> r.action, executed |-> BURST - left + 1]
             ELSE run_burst(r.bot, w, pos, left - 1)

\* the sensor registers r3..r6 Organism::tick writes first; rnd is the byte thread_rng() drew
refresh_registers(bot, w, pos, rnd) ==
    [bot EXCEPT !.registers[3] = rnd,
                !.registers[4] = into_u8_fraction(pos[1], get_height(w.field)),
                !.registers[5] = into_u8_fraction(bot.stored_minerals, w.config.max_minerals),
                !.registers[6] = into_u8_fraction(bot.energy, w.config.max_cell_size)]

tick_without_die(bot, w, pos, rnd) ==
    run_burst(refresh_registers(bot, w, pos, rnd), w, pos, BURST)

\* Organism::tick
tick(bot, w, pos, rnd) ==
    LET b0 == refresh_registers(bot, w, pos, rnd)
    IN  IF b0.energy = 0
        THEN [bot |-> b0, action |-> Action("Die", "Up", 0, 0), executed |-> 0]
        ELSE run_burst(b0, w, pos, BURST)

(***************************************************************************)
(* Program mutation (code.rs).  A draw of the generator is the record      *)
(* [hit, pos, op]: whether an instruction is replaced, which one, by what. *)
(***************************************************************************)
NoHit == [hit |-> FALSE, pos |-> 0, op |-> Op("Sythesize", 0)]
Hit(p, op) == [hit |-> TRUE, pos |-> p, op |-> op]

\* Program::break_with_chance: damage.hit is the Bernoulli sample
break_with_chance(code, damage) ==
    IF damage.hit THEN code_set(code, damage.pos % CODE_SIZE, damage.op) ELSE code

\* The draws of one Program::clone_lossy call, one pair per position: the usize
\* that is compared with mutation_chance and the opcode rand::random() gives
\* if the position is replaced.  lossy.at holds the pairs of the positions in
\* its domain, lossy.rest the pair of every other position.
NoLossy ==
    [at |-> <<>>, rest |-> [draw |-> 999, op |-> Op("Sythesize", 0)]]
lossy_draw(lossy, idx) ==
    IF idx \in DOMAIN lossy.at THEN lossy.at[idx] ELSE lossy.rest

\* Program::clone_lossy: position idx is replaced if its draw % 1000 is below
\* mutation_chance, and copied otherwise
clone_lossy(code, mutation_chance, lossy) ==
    LET item(idx) ==
            IF lossy_draw(lossy, idx).draw % 1000 < mutation_chance
            THEN lossy_draw(lossy, idx).op
            ELSE code_at(code, idx)
        drawn == IF DOMAIN lossy.at = {} THEN 0
                 ELSE 1 + CHOOSE m \in DOMAIN lossy.at :
                              \A q \in DOMAIN lossy.at : q <= m
        n == Max(Len(code.head), drawn)
    IN  program_of([q \in 1..n |-> item(q - 1)],
                   IF n < CODE_SIZE THEN item(n) ELSE code.fill)

\* Organism::age
age(bot, damage) == [bot EXCEPT !.code = break_with_chance(bot.code, damage)]

split_off_unchecked(bot, energy, minerals, mutation_chance, lossy, id) ==
    [some |-> TRUE,
     parent |-> [bot EXCEPT !.energy = saturating_sub(bot.energy, energy),
                            !.stored_minerals =
                                saturating_sub(bot.stored_minerals, minerals)],
     child |-> with_program(energy, minerals,
                            clone_lossy(bot.code, mutation_chance, lossy), id),
     underflow |-> FALSE]

split_off_if_affordable(bot, energy, minerals, mutation_chance, lossy, id) ==
    IF bot.energy >= energy
    THEN [some |-> TRUE,
          parent |-> [bot EXCEPT !.energy = bot.energy - energy,
                                 !.stored_minerals =
                                     saturating_sub(bot.stored_minerals, minerals)],
          child |-> with_program(energy, minerals,
                                 clone_lossy(bot.code, mutation_chance, lossy), id),
          underflow |-> minerals > bot.stored_minerals]
    ELSE [some |-> FALSE, parent |-> bot, child |-> Empty, underflow |-> FALSE]

\* Organism::split_off
split_off(bot, energy, minerals, mutation_chance, lossy, id) ==
    IF bot.energy >= energy * 2
    THEN [some |-> TRUE,
          parent |-> [bot EXCEPT !.energy = bot.energy - energy,
                                 !.stored_minerals =
                                     saturating_sub(bot.stored_minerals, minerals)],
          child |-> with_program(energy, minerals,
                                 clone_lossy(bot.code, mutation_chance, lossy), id),
          underflow |-> minerals > bot.stored_minerals]
    ELSE [some |-> FALSE, parent |-> bot, child |-> Empty, underflow |-> FALSE]

\* Organism::try_clone_into: the child made by split_off, if any, is written to the target cell
try_clone_into(bot, energy, minerals, mutation_chance, lossy, id) ==
    LET s == split_off(bot, energy, minerals, mutation_chance, lossy, id)
    IN  [placed |-> s.some, parent |-> s.parent,
         target |-> IF s.some THEN s.child ELSE Empty,
         underflow |-> s.underflow]

\* mass_to_chance: the outcomes gen_ratio(own, own + target + 1) can give
mass_to_chance(own_mass, target_mass) ==
    IF own_mass = 0 THEN {FALSE} ELSE BOOLEAN

energy_soft_cap_floor(mass, cap) == mass \div cap

\* energy_soft_cap: ceil(mass / cap), computed in f64 (exact for the energies of
\* the model)
energy_soft_cap(mass, cap) == (mass + cap - 1) \div cap

(***************************************************************************)
(* World (world.rs).                                                       *)
(***************************************************************************)
\* World::empty::<WIDTH, HEIGHT>(config)
empty(width, height, config) ==
    [field |-> [inner |-> [k \in 0..(width * height - 1) |-> Empty], width |-> width],
     iteration |-> 1,
     updates |-> [k \in 0..(width * height - 1) |-> 0],
     width |-> width,
     config |-> config,
     measure_steps |-> 0]

world_height(w) == field_len(w.field) \div w.width
pos_of(w, k) == <<k \div w.width, k % w.width>>
set_cell(w, pos, c) == [w EXCEPT !.field.inner[field_index(w.field, pos)] = c]

get_update_never(w, pos) == 0

\* World::get_update
get_update(w, pos) == w.updates[pos[1] * w.width + pos[2]]

mark_tick_nothing(w, pos) == w

\* World::mark_tick
mark_tick(w, pos) == [w EXCEPT !.updates[pos[1] * w.width + pos[2]] = w.iteration]

\* WorldField::disjoint_refs: None for one and the same cell
disjoint_refs(f, p1, p2) == ~(p1[1] = p2[1] /\ p1[2] = p2[2])

look_relative_disjoint_mut_inverse(f, pos, direction) ==
    LET p2 == relative_shift(f, pos, inverse(direction))
    IN  IF p2.some
        THEN IF disjoint_refs(f, pos, p2.val)
             THEN [some |-> TRUE, target |-> p2]
             ELSE [some |-> FALSE, target |-> None]
        ELSE [some |-> TRUE, target |-> None]

\* WorldField::look_relative_disjoint_mut(_boxes): [some] is FALSE where the code
\* returns None; target is the Option of the neighbour's position
look_relative_disjoint_mut(f, pos, direction) ==
    LET p2 == relative_shift(f, pos, direction)
    IN  IF p2.some
        THEN IF disjoint_refs(f, pos, p2.val)
             THEN [some |-> TRUE, target |-> p2]
             ELSE [some |-> FALSE, target |-> None]
        ELSE [some |-> TRUE, target |-> None]

\* World::run_bot_prelude
run_bot_prelude(config, pos, bot, damage) ==
    age(add_minerals(bot, get_minerals(config, pos[1]), config.max_minerals), damage)

\* World::run_bot_postlude
run_bot_postlude(config, pos, bot) ==
    decrease_energy(bot, energy_soft_cap(bot.energy, config.max_cell_size))

(***************************************************************************)
(* World::run_bot_action.  The result is the world after the action, the   *)
(* position to go on with (tick_idx), ok = FALSE for Err(()), fault = TRUE *)
(* when an unwrap() met None or a subtraction went below zero, and, for    *)
(* the history variables, the action, the number of instructions executed  *)
(* and the position of the child a TryClone created.                       *)
(*   rnd    the byte Organism::tick draws for r3                           *)
(*   chance the outcome of mass_to_chance                                  *)
(*   lossy  the draw of clone_lossy                                        *)
(*   nid    the id a child gets                                            *)
(* w1 is the world with the bot as Organism::tick left it, vm the result   *)
(* of Organism::tick, look the result of look_relative_disjoint_mut.       *)
(***************************************************************************)
ActionResult(w, pos, ok, fault, vm, child) ==
    [w |-> w, pos |-> pos, ok |-> ok, fault |-> fault,
     action |-> vm.action, executed |-> vm.executed, child |-> child]

resolve_eat_dead_at_cost(w1, pos, vm, look, chance) ==
    IF ~look.some THEN ActionResult(w1, pos, TRUE, TRUE, vm, None)
    ELSE IF look.target.some /\ IsDeadBody(cell_at(w1.field, look.target.val))
              /\ vm.bot.energy > w1.config.attack_cost
    THEN ActionResult(
             set_cell(set_cell(w1, look.target.val, Empty), pos,
                 add_minerals(
                     add_energy(decrease_energy(vm.bot, w1.config.attack_cost),
                                cell_at(w1.field, look.target.val).energy \div 2),
                     cell_at(w1.field, look.target.val).minerals \div 2,
                     w1.config.max_minerals)),
             pos, TRUE, FALSE, vm, None)
    ELSE ActionResult(w1, pos, TRUE, FALSE, vm, None)

resolve_eat_whole_prey(w1, pos, vm, look, chance) ==
    IF ~look.some THEN ActionResult(w1, pos, TRUE, TRUE, vm, None)
    ELSE IF look.target.some /\ IsOrganism(cell_at(w1.field, look.target.val))
              /\ vm.bot.energy > w1.config.attack_cost /\ chance
    THEN ActionResult(
             set_cell(set_cell(w1, pos,
                 add_energy(decrease_energy(vm.bot, w1.config.attack_cost),
                            cell_at(w1.field, look.target.val).energy \div 2)),
                 look.target.val, Empty),
             pos, TRUE, FALSE, vm, None)
    ELSE ActionResult(w1, pos, TRUE, FALSE, vm, None)

resolve_eat_half_body(w1, pos, vm, look, chance) ==
    IF ~look.some THEN ActionResult(w1, pos, TRUE, TRUE, vm, None)
    ELSE IF look.target.some /\ IsDeadBody(cell_at(w1.field, look.target.val))
    THEN ActionResult(
             set_cell(set_cell(w1, look.target.val,
                          DeadBody(cell_at(w1.field, look.target.val).energy
                                     - cell_at(w1.field, look.target.val).energy \div 2,
                                   cell_at(w1.field, look.target.val).minerals
                                     - cell_at(w1.field, look.target.val).minerals \div 2)),
                      pos,
                 add_minerals(
                     add_energy(vm.bot, cell_at(w1.field, look.target.val).energy \div 2),
                     cell_at(w1.field, look.target.val).minerals \div 2,
                     w1.config.max_minerals)),
             pos, TRUE, FALSE, vm, None)
    ELSE ActionResult(w1, pos, TRUE, FALSE, vm, None)

\* the arm Some(OrganismAction::TryEat(direction))
resolve_eat(w1, pos, vm, look, chance) ==
    IF ~look.some THEN ActionResult(w1, pos, TRUE, TRUE, vm, None)
    ELSE IF look.target.some /\ IsOrganism(cell_at(w1.field, look.target.val))
              /\ vm.bot.energy > w1.config.attack_cost
    THEN IF chance
         THEN ActionResult(
                  set_cell(set_cell(w1, pos,
                      add_energy(decrease_energy(vm.bot, w1.config.attack_cost),
                          saturating_sub(cell_at(w1.field, look.target.val).energy,
                                         w1.config.dead_energy) \div 2)),
                      look.target.val, Empty),
                  pos, TRUE, FALSE, vm, None)
         ELSE ActionResult(
                  set_cell(set_cell(w1, pos, decrease_energy(vm.bot, w1.config.attack_cost)),
                      look.target.val,
                      register_attack(cell_at(w1.field, look.target.val),
                                      inverse(vm.action.dir))),
                  pos, TRUE, FALSE, vm, None)
    ELSE IF look.target.some /\ IsDeadBody(cell_at(w1.field, look.target.val))
    THEN ActionResult(
             set_cell(set_cell(w1, look.target.val, Empty), pos,
                 add_minerals(
                     add_energy(vm.bot, cell_at(w1.field, look.target.val).energy \div 2),
                     cell_at(w1.field, look.target.val).minerals \div 2,
                     w1.config.max_minerals)),
             pos, TRUE, FALSE, vm, None)
    ELSE ActionResult(w1, pos, TRUE, FALSE, vm, None)

resolve_move_by_snapshot(w1, pos, vm, look) ==
    IF ~look.some THEN ActionResult(w1, pos, TRUE, TRUE, vm, None)
    ELSE IF look.target.some /\ IsEmpty(cell_at(w1.field, look.target.val))
              /\ IsEmpty(cell_at(pre.field, look.target.val))
    THEN ActionResult(
             set_cell(set_cell(w1, pos, cell_at(w1.field, look.target.val)),
                      look.target.val, vm.bot),
             look.target.val, TRUE, FALSE, vm, None)
    ELSE ActionResult(w1, pos, TRUE, FALSE, vm, None)

\* the arm Some(OrganismAction::TryMove(direction))
resolve_move(w1, pos, vm, look) ==
    IF ~look.some THEN ActionResult(w1, pos, TRUE, TRUE, vm, None)
    ELSE IF look.target.some /\ IsEmpty(cell_at(w1.field, look.target.val))
    THEN ActionResult(
             set_cell(set_cell(w1, pos, cell_at(w1.field, look.target.val)),
                      look.target.val, vm.bot),
             look.target.val, TRUE, FALSE, vm, None)
    ELSE ActionResult(w1, pos, TRUE, FALSE, vm, None)

\* the arm Some(OrganismAction::TryClone(child_size, child_minerals, direction));
\* c is the result of try_clone_into
resolve_clone(w1, pos, vm, look, c) ==
    IF ~look.some THEN ActionResult(w1, pos, TRUE, TRUE, vm, None)
    ELSE IF look.target.some /\ IsEmpty(cell_at(w1.field, look.target.val))
    THEN ActionResult(
             set_cell(set_cell(w1, pos, c.parent), look.target.val, c.target),
             pos, TRUE, c.underflow, vm,
             IF c.placed THEN look.target ELSE None)
    ELSE ActionResult(w1, pos, TRUE, FALSE, vm, None)

resolve_share_energy_refund(w1, pos, vm, shifted) ==
    IF shifted.some /\ IsOrganism(cell_at(w1.field, shifted.val))
    THEN ActionResult(
             set_cell(w1, shifted.val,
                      add_energy(cell_at(w1.field, shifted.val), vm.action.a)),
             pos, TRUE, FALSE, vm, None)
    ELSE ActionResult(set_cell(w1, pos, add_energy(vm.bot, vm.action.a)),
                      pos, TRUE, FALSE, vm, None)

\* the arm Some(OrganismAction::ShareEnergy(amount, direction)); shifted is the
\* cell look_relative_mut finds
resolve_share_energy(w1, pos, vm, shifted) ==
    IF shifted.some /\ IsOrganism(cell_at(w1.field, shifted.val))
    THEN ActionResult(
             set_cell(w1, shifted.val,
                      add_energy(cell_at(w1.field, shifted.val), vm.action.a)),
             pos, TRUE, FALSE, vm, None)
    ELSE ActionResult(w1, pos, TRUE, FALSE, vm, None)

\* the arm Some(OrganismAction::ShareMinerals(amount, direction))
resolve_share_minerals(w1, pos, vm, shifted) ==
    IF shifted.some /\ IsOrganism(cell_at(w1.field, shifted.val))
    THEN ActionResult(
             set_cell(w1, shifted.val,
                      add_minerals(cell_at(w1.field, shifted.val), vm.action.a,
                                   w1.config.max_minerals)),
             pos, TRUE, FALSE, vm, None)
    ELSE ActionResult(w1, pos, TRUE, FALSE, vm, None)

\* the match of run_bot_action on the action Organism::tick returned
resolve_action(w1, pos, vm, chance, lossy, nid) ==
    CASE vm.action.type = "TryEat" ->
            resolve_eat(w1, pos, vm,
                        look_relative_disjoint_mut(w1.field, pos, vm.action.dir), chance)
      [] vm.action.type = "TryMove" ->
            resolve_move(w1, pos, vm,
                         look_relative_disjoint_mut(w1.field, pos, vm.action.dir))
      [] vm.action.type = "Die" -> ActionResult(w1, pos, FALSE, FALSE, vm, None)
      [] vm.action.type = "TryClone" ->
            resolve_clone(w1, pos, vm,
                          look_relative_disjoint_mut(w1.field, pos, vm.action.dir),
                          try_clone_into(vm.bot, vm.action.a, vm.action.b,
                                         w1.config.mutation_chance, lossy, nid))
      [] vm.action.type = "ShareEnergy" ->
            resolve_share_energy(w1, pos, vm,
                                 relative_shift(w1.field, pos, vm.action.dir))
      [] vm.action.type = "ShareMinerals" ->
            resolve_share_minerals(w1, pos, vm,
                                   relative_shift(w1.field, pos, vm.action.dir))
      [] OTHER -> ActionResult(w1, pos, TRUE, FALSE, vm, None)

\* run_bot_action once Organism::tick has returned vm
run_bot_action_vm(w, pos, vm, chance, lossy, nid) ==
    resolve_action(set_cell(w, pos, vm.bot), pos, vm, chance, lossy, nid)

\* World::run_bot_action
run_bot_action(w, pos, rnd, chance, lossy, nid) ==
    run_bot_action_vm(w, pos, tick(cell_at(w.field, pos), w, pos, rnd), chance, lossy, nid)

(***************************************************************************)
(* World::process_bot.  inp holds the draws of the step: damage (aging),   *)
(* rnd, chance, lossy (TryClone), rdir (Direction::get_random), lossy2     *)
(* (forced split).  nid is the next free organism id.  The result adds to  *)
(* the world: pos, the position process_bot returns; fault; and, for the   *)
(* history variables, what the step did.                                   *)
(***************************************************************************)
ProcessResult(w, pos, fault, act, died, split) ==
    [w |-> w, pos |-> pos, fault |-> fault, action |-> act.action,
     executed |-> act.executed, child |-> act.child, died |-> died, split |-> split]

split_and_postlude_any_target(w1, act, bot, target, sb, c) ==
    IF sb.ok /\ ~bot.can_clone /\ target.some
    THEN ProcessResult(
             set_cell(set_cell(w1, target.val, c.target), act.pos,
                      run_bot_postlude(w1.config, act.pos, c.parent)),
             act.pos, c.underflow, act, FALSE,
             IF c.placed THEN target ELSE None)
    ELSE ProcessResult(
             set_cell(w1, act.pos, run_bot_postlude(w1.config, act.pos, bot)),
             act.pos, FALSE, act, FALSE, None)

split_and_postlude_any_bot(w1, act, bot, target, sb, c) ==
    IF sb.ok /\ target.some /\ IsEmpty(cell_at(w1.field, target.val))
    THEN ProcessResult(
             set_cell(set_cell(w1, target.val, c.target), act.pos,
                      run_bot_postlude(w1.config, act.pos, c.parent)),
             act.pos, c.underflow, act, FALSE,
             IF c.placed THEN target ELSE None)
    ELSE ProcessResult(
             set_cell(w1, act.pos, run_bot_postlude(w1.config, act.pos, bot)),
             act.pos, FALSE, act, FALSE, None)

\* the forced split and the postlude; w1 is the world after mark_tick, bot the
\* organism at tick_idx, target the neighbour the random direction gave, sb the
\* result of split_behaviour, c the result of try_clone_into
split_and_postlude(w1, act, bot, target, sb, c) ==
    IF sb.ok /\ ~bot.can_clone /\ target.some /\ IsEmpty(cell_at(w1.field, target.val))
    THEN ProcessResult(
             set_cell(set_cell(w1, target.val, c.target), act.pos,
                      run_bot_postlude(w1.config, act.pos, c.parent)),
             act.pos, c.underflow, act, FALSE,
             IF c.placed THEN target ELSE None)
    ELSE ProcessResult(
             set_cell(w1, act.pos, run_bot_postlude(w1.config, act.pos, bot)),
             act.pos, FALSE, act, FALSE, None)

\* process_bot from the random look on
forced_split(w1, act, bot, look, lossy2, nid2) ==
    IF ~look.some THEN ProcessResult(w1, act.pos, TRUE, act, FALSE, None)
    ELSE split_and_postlude(w1, act, bot, look.target,
             split_behaviour(w1.config, bot.energy, bot.stored_minerals),
             try_clone_into(bot,
                 split_behaviour(w1.config, bot.energy, bot.stored_minerals).energy,
                 split_behaviour(w1.config, bot.energy, bot.stored_minerals).minerals,
                 w1.config.mutation_chance, lossy2, nid2))

\* process_bot after mark_tick(tick_idx)
after_mark(w1, act, rdir, lossy2, nid) ==
    IF ~act.ok
    THEN ProcessResult(
             set_cell(w1, act.pos,
                      DeadBody(w1.config.dead_energy,
                               cell_at(w1.field, act.pos).stored_minerals)),
             act.pos, FALSE, act, TRUE, None)
    ELSE forced_split(w1, act, cell_at(w1.field, act.pos),
                      look_relative_disjoint_mut(w1.field, act.pos, rdir),
                      lossy2, IF act.child.some THEN nid + 1 ELSE nid)

\* process_bot after run_bot_action
after_action(act, rdir, lossy2, nid) ==
    IF act.fault THEN ProcessResult(act.w, act.pos, TRUE, act, FALSE, None)
    ELSE after_mark(mark_tick(act.w, act.pos), act, rdir, lossy2, nid)

\* the world after run_bot_prelude on the bot at pos
prelude_world(w, pos, damage) ==
    set_cell(w, pos, run_bot_prelude(w.config, pos, cell_at(w.field, pos), damage))

\* World::process_bot
process_bot(w, pos, inp, nid) ==
    after_action(
        run_bot_action(prelude_world(w, pos, inp.damage), pos, inp.rnd, inp.chance,
                       inp.lossy, nid),
        inp.rdir, inp.lossy2, nid)

(***************************************************************************)
(* Inputs of the model: grids, configurations, programs, random draws.     *)
(***************************************************************************)
\* <<width, height>> of the worlds of Spec
GridSizes == {<<2, 2>>, <<1, 2>>}
ConfigSet == {MainConfig, SmallConfig}

GreenProgram == uniform_program(Op("Sythesize", 0))
IdleProgram == uniform_program(Op("LoadInt", 0))
\* photosynthesis once, then r2 <- r3 (a random direction) and MoveRelative for ever
SynthMover ==
    program_of(<<Op("Sythesize", 0), Op("CopyRegisters", 50), Op("MoveRelative", 0)>>,
               Op("MoveRelative", 0))
\* photosynthesis once, then r2 <- r3, Clone(255), and photosynthesis again
SynthCloner ==
    program_of(<<Op("Sythesize", 0), Op("CopyRegisters", 50), Op("Clone", 255)>>,
               Op("Sythesize", 0))
\* the programs Program::random_program draws in the model
RandomPrograms == {SynthMover, SynthCloner}

RandBytes == 0..MaxRand

\* the registers an opcode names
op_registers(o) ==
    IF o.op \in {"CopyRegisters", "Add", "AddClip", "SubClip"}
    THEN {pair_unwrap(o.arg)[1], pair_unwrap(o.arg)[2]}
    ELSE IF o.op \in {"Flip", "SkipZero"} THEN {addr_unwrap(o.arg)}
    ELSE {}

\* no instruction but one that names register 3 reads the byte drawn for it
names_random_register(code) ==
    \/ \E k \in 1..Len(code.head) : 3 \in op_registers(code.head[k])
    \/ 3 \in op_registers(code.fill)

\* the bytes drawn for register 3 of a bot: a byte that no instruction of its
\* program can read is drawn as 0
RandInputs(bot) == IF names_random_register(bot.code) THEN RandBytes ELSE {0}
\* the opcodes `impl Distribution<OpCode> for Standard` draws in the model
RandomOpcodes == {Op("Clone", 255), Op("Eat", 0)}
MutInputs == {NoHit} \cup {Hit(q, op) : q \in 0..MaxMutPos, op \in RandomOpcodes}

DamageInputs(config, used) ==
    IF config.aging /\ used < MaxDamage THEN MutInputs ELSE {NoHit}
\* the draws of a clone_lossy call: below the chance at the positions of a set
\* of positions within 0..MaxLossyPos, with an opcode each, and above it elsewhere
LossyDraws ==
    UNION {{[at |-> f, rest |-> NoLossy.rest] :
               f \in [at -> {[draw |-> 0, op |-> op] : op \in RandomOpcodes}]} :
              at \in SUBSET (0..MaxLossyPos)}
LossyInputs(config, needed) ==
    IF config.mutation_chance > 0 /\ needed THEN LossyDraws ELSE {NoLossy}
ChanceInputs(w, pos, vm, seen) ==
    IF vm.action.type = "TryEat" /\ seen.some /\ IsOrganism(seen.cell)
    THEN mass_to_chance(vm.bot.energy, seen.cell.energy)
    ELSE {FALSE}

\* whether the scheduler may split the bot the action left at act.pos
may_split(act) ==
    /\ act.ok
    /\ ~act.fault
    /\ ~cell_at(act.w.field, act.pos).can_clone
    /\ split_behaviour(act.w.config, cell_at(act.w.field, act.pos).energy,
                       cell_at(act.w.field, act.pos).stored_minerals).ok

\* the draws that matter to one step of the bot at pos: a draw that no code path
\* of the step reads is fixed
InputsAfterAction(damage, rnd, chance, lossy, act) ==
    {[damage |-> damage, rnd |-> rnd, chance |-> chance, lossy |-> lossy,
      rdir |-> rdir, lossy2 |-> lossy2] :
        rdir \in Directions, lossy2 \in LossyInputs(act.w.config, may_split(act))}

InputsAfterVm(w0, pos, damage, rnd, vm, nid) ==
    UNION {InputsAfterAction(damage, rnd, x[1], x[2],
                             run_bot_action_vm(w0, pos, vm, x[1], x[2], nid)) :
              x \in ChanceInputs(w0, pos, vm, look_relative(w0.field, pos, vm.action.dir))
                    \X LossyInputs(w0.config, vm.action.type = "TryClone")}

InputsAfterPrelude(w0, pos, damage, nid) ==
    UNION {InputsAfterVm(w0, pos, damage, rnd,
                         tick(cell_at(w0.field, pos), w0, pos, rnd), nid) :
              rnd \in RandInputs(cell_at(w0.field, pos))}

StepInputs(w, pos, used, nid) ==
    UNION {InputsAfterPrelude(prelude_world(w, pos, damage), pos, damage, nid) :
              damage \in DamageInputs(w.config, used)}

(***************************************************************************)
(* History records.                                                        *)
(***************************************************************************)
NoLast ==
    [kind |-> "none", pos |-> <<0, 0>>, to |-> <<0, 0>>, iter |-> 0, id |-> 0,
     e0 |-> 0, m0 |-> 0, action |-> NoAction, executed |-> 0,
     child |-> None, split |-> None, died |-> FALSE, fault |-> FALSE,
     requested |-> 0, shortfall |-> 0, seen |-> "None",
     chance |-> FALSE, rdir |-> "Up", ok |-> TRUE]

Zeros(n) == [k \in 1..n |-> 0]

(***************************************************************************)
(* World::populate: `cells` are the first min(n, k) free cells of the      *)
(* shuffled list, prog[c] the program the factory gives the bot of cell c. *)
(***************************************************************************)
get_free_cells(w) ==
    {k \in DOMAIN w.field.inner : IsEmpty(w.field.inner[k])}

\* the ids are given in the order of the cells
RankIn(cells, c) == Cardinality({d \in cells : d < c})

populate(w, cells, prog, nid) ==
    [w EXCEPT !.field.inner =
        [k \in DOMAIN w.field.inner |->
            IF k \in cells
            THEN random(w.config.start_energy, prog[k], nid + RankIn(cells, k))
            ELSE w.field.inner[k]]]

\* Err(number_of_bots) of populate: the bots that found no cell
populate_shortfall(w, n) == saturating_sub(n, Cardinality(get_free_cells(w)))

\* the orders in which free_cells.shuffle() can leave the free cells
Shuffles(cells) ==
    {f \in [1..Cardinality(cells) -> cells] :
        \A a, b \in 1..Cardinality(cells) : f[a] = f[b] => a = b}

RECURSIVE populate_loop_unbounded(_, _, _, _, _)
populate_loop_unbounded(w, free_cells, number_of_bots, prog, nid) ==
    IF free_cells = <<>>
    THEN [w |-> w, number_of_bots |-> number_of_bots]
    ELSE populate_loop_unbounded(
             [w EXCEPT !.field.inner[Head(free_cells)] =
                 random(w.config.start_energy, prog[Head(free_cells)], nid)],
             Tail(free_cells), saturating_sub(number_of_bots, 1), prog, nid + 1)

\* the for loop of World::populate over the shuffled free cells; prog[c] is the
\* program bot_factory gives the bot of cell c
RECURSIVE populate_loop(_, _, _, _, _)
populate_loop(w, free_cells, number_of_bots, prog, nid) ==
    IF free_cells = <<>> \/ number_of_bots = 0
    THEN [w |-> w, number_of_bots |-> number_of_bots]
    ELSE populate_loop(
             [w EXCEPT !.field.inner[Head(free_cells)] =
                 random(w.config.start_energy, prog[Head(free_cells)], nid)],
             Tail(free_cells), number_of_bots - 1, prog, nid + 1)

\* the Result<(), usize> World::populate returns
populate_result(number_of_bots) ==
    IF number_of_bots > 0 THEN [ok |-> FALSE, err |-> number_of_bots]
    ELSE [ok |-> TRUE, err |-> 0]

\* populate_green / populate_random, called (under the mutex) between two ticks
Populate ==
    /\ ~panicked
    /\ scan = 0
    /\ world.measure_steps < MaxTicks
    /\ populated < MaxPopulated
    /\ \E n \in 1..(MaxPopulated - populated) :
       \E cells \in SUBSET get_free_cells(world) :
       \E isGreen \in BOOLEAN :
       \E prog \in [cells -> IF isGreen THEN {GreenProgram} ELSE RandomPrograms] :
          /\ Cardinality(cells) = Min(n, Cardinality(get_free_cells(world)))
          /\ world' = populate(world, cells, prog, Len(execs) + 1)
          /\ execs' = execs \o Zeros(Cardinality(cells))
          /\ populated' = populated + n
          /\ last' = [NoLast EXCEPT !.kind = "populate", !.requested = n,
                                    !.shortfall = populate_shortfall(world, n),
                                    !.iter = world.iteration]
    /\ UNCHANGED <<scan, row, panicked, born, visited, hits, shiftIn, shiftOut, pre, server, internal_buffer, printing>>

(***************************************************************************)
(* World::tick: one iteration of the loop over the cells, at cell `scan`.  *)
(* After the last cell the tick ends: iteration and measure_steps go up.   *)
(***************************************************************************)
end_of_scan(w, k) ==
    IF k = field_len(w.field) - 1
    THEN [w EXCEPT !.iteration = wrapping_add(w.iteration, 1),
                   !.measure_steps = w.measure_steps + 1]
    ELSE w

next_scan(w, k) == IF k = field_len(w.field) - 1 THEN 0 ELSE k + 1

\* the cell the loop body is at: row i, and the column j the inner range gives
tick_pos(w, k, i) == <<i, k % w.width>>

\* the loop variable i at the start of the next iteration: the loop body assigns
\* (i, j) = process_bot((i, j)), so i keeps the row of the position `to` the
\* body ended at until the inner loop is over and the outer range rebinds i
next_row(w, k, to) ==
    IF next_scan(w, k) % w.width = 0 THEN next_scan(w, k) \div w.width ELSE to[1]

Bump(e, id) == [e EXCEPT ![id] = e[id] + 1]

\* the executions and births of the running tick: a tick starts at cell 0
TickExecs == IF scan = 0 THEN Zeros(Len(execs)) ELSE execs
TickBorn == IF scan = 0 THEN {} ELSE born
TickVisited == IF scan = 0 THEN {} ELSE visited

\* what the bot found in the direction of its action, before the action
seen_kind(seen) == IF seen.some THEN seen.cell.kind ELSE "None"

\* the history of a step that processed the bot `cell` at pos with result r
BotLast(w, pos, cell, r) ==
    [NoLast EXCEPT !.kind = "bot", !.pos = pos, !.to = r.pos,
                   !.iter = w.iteration, !.id = cell.id,
                   !.e0 = cell.energy, !.m0 = cell.stored_minerals,
                   !.action = r.action, !.executed = r.executed,
                   !.child = r.child, !.split = r.split,
                   !.died = r.died, !.fault = r.fault,
                   !.seen = seen_kind(look_relative(w.field, pos, r.action.dir))]

Kids(r) == (IF r.child.some THEN 1 ELSE 0) + (IF r.split.some THEN 1 ELSE 0)

\* the state after the loop body ran process_bot with result r
BotStep(pos, cell, inp, r, nid) ==
    /\ world' = IF r.fault THEN r.w ELSE end_of_scan(mark_tick(r.w, r.pos), scan)
    /\ panicked' = r.fault
    /\ hits' = IF inp.damage.hit THEN hits + 1 ELSE hits
    /\ last' = BotLast(world, pos, cell, r)
    /\ execs' = Bump(TickExecs, cell.id) \o Zeros(Kids(r))
    /\ born' = TickBorn \cup (nid..(nid + Kids(r) - 1))
    /\ visited' = TickVisited \cup {field_index(world.field, pos)}
    /\ row' = IF r.fault THEN row ELSE next_row(world, scan, r.pos)

\* the loop body at a cell that holds no organism, or is skipped
IdleStep(w, kind, pos) ==
    /\ world' = end_of_scan(w, scan)
    /\ last' = [NoLast EXCEPT !.kind = kind, !.pos = pos, !.to = pos,
                              !.iter = world.iteration]
    /\ execs' = TickExecs
    /\ born' = TickBorn
    /\ visited' = TickVisited \cup {field_index(world.field, pos)}
    /\ row' = next_row(world, scan, pos)
    /\ UNCHANGED <<panicked, hits>>

TickBody(pos, cell, nid) ==
    IF get_update(world, pos) = world.iteration
    THEN IdleStep(world, "skip", pos)
    ELSE IF ~IsOrganism(cell)
    THEN IdleStep(mark_tick(world, pos), "vacant", pos)
    ELSE \E inp \in StepInputs(world, pos, hits, nid) :
            BotStep(pos, cell, inp, process_bot(world, pos, inp, nid), nid)

\* one iteration of the loop of World::tick
TickLoop ==
    /\ ~panicked
    /\ TickBody(tick_pos(world, scan, row),
                cell_at(world.field, tick_pos(world, scan, row)),
                Len(execs) + 1)
    /\ scan' = IF panicked' THEN scan ELSE next_scan(world, scan)
    /\ UNCHANGED <<populated, shiftIn, shiftOut, pre>>

TickStep ==
    /\ world.measure_steps < MaxTicks
    /\ TickLoop
    /\ UNCHANGED <<server, internal_buffer, printing>>

(***************************************************************************)
(* The specification of the world: construction, populate calls between    *)
(* ticks, and ticks cell by cell.                                          *)
(***************************************************************************)
\* the value of pre before the first step
NoWorld == [field |-> [inner |-> <<>>, width |-> 1]]

\* the tasks of main: the worker, the measurement task, and a request handler
Tasks == {"worker", "measure", "handler"}

\* ServerState as main builds it, with the mutex free and every task before
\* its state.lock()
NoServer ==
    [lock |-> "none", pc |-> [t \in Tasks |-> "idle"], req |-> "none",
     paused |-> FALSE, previous_step |-> 0, torn |-> FALSE, worker_ticks |-> 0]

\* no call of Program::print_minimized
NotPrinting == [pc |-> "none"]

NoShift == [width |-> 1, height |-> 1, pos |-> <<0, 0>>, direction |-> "Up"]
NotShifted == [done |-> FALSE, res |-> None]

Init ==
    /\ \E size \in GridSizes : \E config \in ConfigSet :
          world = empty(size[1], size[2], config)
    /\ scan = 0
    /\ row = 0
    /\ panicked = FALSE
    /\ execs = <<>>
    /\ born = {}
    /\ visited = {}
    /\ last = NoLast
    /\ hits = 0
    /\ populated = 0
    /\ shiftIn = NoShift
    /\ shiftOut = NotShifted
    /\ pre = NoWorld
    /\ server = NoServer
    /\ internal_buffer = <<>>
    /\ printing = NotPrinting

Next == Populate \/ TickStep

Spec == Init /\ [][Next]_vars

Organisms(w) == {k \in DOMAIN w.field.inner : IsOrganism(w.field.inner[k])}

\* C1: within one tick no organism that was in the grid when the tick started is
\* executed by the VM more than once, also when it moves Right or Down into a
\* cell the scan has not reached yet.
C1_AtMostOncePerTick ==
    \A id \in 1..Len(execs) : id \notin born => execs[id] <= 1

\* the scan has just skipped the cell of a bot that moved Right or Down
C1_Witness ==
    /\ last.kind = "skip"
    /\ IsOrganism(cell_at(world.field, last.pos))
    /\ cell_at(world.field, last.pos).id \notin born
    /\ execs[cell_at(world.field, last.pos).id] = 1

\* C2: an organism created during a tick by a TryClone or by a forced split is
\* not executed in that tick.
C2_ChildNotExecuted ==
    \A id \in born : execs[id] = 0

\* C3 as stated: after a bot whose action was TryMove(dir) onto an Empty
\* neighbour has been processed, the origin is Empty, the neighbour holds that
\* bot and carries the stamp of the running iteration.
MovedOntoEmpty ==
    /\ last.kind = "bot"
    /\ ~last.fault
    /\ last.action.type = "TryMove"
    /\ last.seen = "Empty"

MoveLanded ==
    /\ relative_shift(world.field, last.pos, last.action.dir) = Some(last.to)
    /\ IsOrganism(cell_at(world.field, last.to))
    /\ cell_at(world.field, last.to).id = last.id
    /\ world.updates[field_index(world.field, last.to)] = last.iter

C3_OriginEmptyAfterMove ==
    MovedOntoEmpty => (MoveLanded /\ IsEmpty(cell_at(world.field, last.pos)))

\* a cell that carries the stamp of the running iteration is skipped by the scan
SkipStep ==
    (~panicked /\ get_update(world, tick_pos(world, scan, row)) = world.iteration)
        => (last'.kind = "skip" /\ world'.field = world.field /\ execs' = execs)

\* C3: after a bot whose action was TryMove(dir) onto an Empty neighbour has
\* been processed, the neighbour holds that bot and carries the stamp of the
\* running iteration, the scan skips every cell that carries that stamp, and
\* the origin is Empty unless the forced split of the same step put the bot's
\* child there.  A move Right from the last column lands in column 0.
C3_MoveStampsDestination ==
    /\ [](MovedOntoEmpty =>
            /\ MoveLanded
            /\ (IsEmpty(cell_at(world.field, last.pos)) \/ last.split = Some(last.pos)))
    /\ [][SkipStep]_vars

\* a bot moved Right from the last column into column 0
C3_Witness ==
    /\ MovedOntoEmpty
    /\ last.action.dir = "Right"
    /\ last.pos[2] = world.width - 1
    /\ world.width > 1
    /\ last.to = <<last.pos[1], 0>>
    /\ IsEmpty(cell_at(world.field, last.pos))

\* C5: at every tick boundary can_clone of every organism says whether its code
\* holds a Clone opcode.
C5_CanCloneMatchesCode ==
    (scan = 0 /\ ~panicked) =>
        \A k \in Organisms(world) :
            world.field.inner[k].can_clone <=> has_clone(world.field.inner[k].code)

\* C6: World::tick never faults.
C6_TickNeverFaults == ~panicked

(***************************************************************************)
(* Starvation: a world that holds an organism whose program is             *)
(* 256 x LoadInt(0), placed by populate with the start energy of the       *)
(* configuration, and then only ticks.  The organism is alone at (0, 0),   *)
(* on a grid two or more cells wide or on a grid one cell wide, or it is   *)
(* at (0, 1) and the organism left of it in its row moves Down.            *)
(***************************************************************************)
ScenarioGrid == <<8, 8>>
SmallGrid == <<2, 2>>
NarrowGrid == <<1, 2>>

StartEnergies(config) == 1..config.max_cell_size

\* r2 <- 2 (Down) by way of r0, then MoveRelative
DownMover ==
    program_of(<<Op("LoadInt", 2), Op("CopyRegisters", 2)>>, Op("MoveRelative", 0))

StarveWorlds ==
    {populate(empty(SmallGrid[1], SmallGrid[2], [SmallConfig EXCEPT !.start_energy = e]),
              {0}, [k \in {0} |-> IdleProgram], 1) : e \in StartEnergies(SmallConfig)}
    \cup {populate(empty(size[1], size[2], [ScenarioConfig EXCEPT !.start_energy = 5]),
                   {0}, [k \in {0} |-> IdleProgram], 1) : size \in {ScenarioGrid, NarrowGrid}}
    \cup {populate(empty(SmallGrid[1], SmallGrid[2], [SmallConfig EXCEPT !.start_energy = 5]),
                   {0, 1}, [k \in {0, 1} |-> IF k = 0 THEN DownMover ELSE IdleProgram], 1)}

InitStarve ==
    /\ world \in StarveWorlds
    /\ scan = 0
    /\ row = 0
    /\ panicked = FALSE
    /\ execs = Zeros(Cardinality(Organisms(world)))
    /\ born = {}
    /\ visited = {}
    /\ last = NoLast
    /\ hits = 0
    /\ populated = Cardinality(Organisms(world))
    /\ shiftIn = NoShift
    /\ shiftOut = NotShifted
    /\ pre = NoWorld
    /\ server = NoServer
    /\ internal_buffer = <<>>
    /\ printing = NotPrinting

TickStarve ==
    /\ world.measure_steps < StarveTicks
    /\ TickLoop
    /\ UNCHANGED <<server, internal_buffer, printing>>

SpecStarve == InitStarve /\ [][TickStarve]_vars

\* the step that has just processed the organism with the program of LoadInt,
\* the last one populate placed
StarverStep == last.kind = "bot" /\ last.id = populated

\* the tick in which the step happened, counted from 1
StepTick == last.iter

Starved ==
    /\ last.died
    /\ last.executed = 0
    /\ last.e0 = 0
    /\ StepTick = world.config.start_energy + 1
    /\ cell_at(world.field, last.pos)
         = DeadBody(world.config.dead_energy,
                    Min(world.config.max_minerals,
                        last.m0 + get_minerals(world.config, last.pos[1])))

\* C9: an organism that never gains energy and starts with energy e,
\* 0 < e <= max_cell_size, has energy e - t after its t-th tick for t <= e, and in
\* tick e + 1 becomes Dead(dead_energy, stored_minerals) with no instruction
\* executed; with e = 5, dead_energy 20 and no minerals the cell is Dead(20, 0)
\* after the 6th tick.
C9_StarvesOnePerTick ==
    /\ StarverStep =>
          IF StepTick <= world.config.start_energy
          THEN /\ ~last.fault
               /\ ~last.died
               /\ IsOrganism(cell_at(world.field, last.pos))
               /\ cell_at(world.field, last.pos).energy = world.config.start_energy - StepTick
          ELSE Starved
    /\ (world.config.dead_energy = 20 /\ ~panicked /\ scan = 0 /\ world.measure_steps = 6)
          => \E k \in DOMAIN world.field.inner : world.field.inner[k] = DeadBody(20, 0)

\* the organisms of C9 that the scheduler does not split: the start energy is
\* not above the split threshold
StarvesBelowSplit ==
    ~split_behaviour(world.config, world.config.start_energy, 0).ok => C9_StarvesOnePerTick

(***************************************************************************)
(* Photosynthesis: a world that holds one green organism, placed by        *)
(* populate_green with the start energy of the configuration, or a green   *)
(* organism and, left of it in its row, an organism that moves Down, and   *)
(* then only ticks.  No organism of these worlds attacks.  pre is the      *)
(* world at the start of the running tick.                                 *)
(***************************************************************************)
TallGrid == <<2, 11>>

GreenAt(size, config, k) ==
    populate(empty(size[1], size[2], config), {k}, [c \in {k} |-> GreenProgram], 1)

GreenWorlds ==
    {GreenAt(SmallGrid, [SmallConfig EXCEPT !.start_energy = e], k) :
        e \in StartEnergies(SmallConfig), k \in {0, SmallGrid[1] * SmallGrid[2] - 1}}
    \cup {GreenAt(ScenarioGrid, ScenarioConfig, 3 * ScenarioGrid[1] + 3)}
    \cup {GreenAt(TallGrid, MainConfig, k) : k \in {0, 10 * TallGrid[1]}}
    \cup {populate(empty(SmallGrid[1], SmallGrid[2], SmallConfig), {0, 1},
                   [c \in {0, 1} |-> IF c = 0 THEN DownMover ELSE GreenProgram], 1)}

InitGreen ==
    /\ world \in GreenWorlds
    /\ scan = 0
    /\ row = 0
    /\ panicked = FALSE
    /\ execs = Zeros(Cardinality(Organisms(world)))
    /\ born = {}
    /\ visited = {}
    /\ last = NoLast
    /\ hits = 0
    /\ populated = Cardinality(Organisms(world))
    /\ shiftIn = NoShift
    /\ shiftOut = NotShifted
    /\ pre = world
    /\ server = NoServer
    /\ internal_buffer = <<>>
    /\ printing = NotPrinting

\* the world of the scenario runs for GreenTicks ticks, the others for MaxTicks
GreenLimit(w) == IF w.config = ScenarioConfig THEN GreenTicks ELSE MaxTicks

\* one iteration of the loop of World::tick
TickGreen ==
    /\ world.measure_steps < GreenLimit(world)
    /\ ~panicked
    /\ TickBody(tick_pos(world, scan, row),
                cell_at(world.field, tick_pos(world, scan, row)),
                Len(execs) + 1)
    /\ scan' = IF panicked' THEN scan ELSE next_scan(world, scan)
    /\ pre' = IF scan = 0 THEN world ELSE pre
    /\ UNCHANGED <<populated, shiftIn, shiftOut, server, internal_buffer, printing>>

SpecGreen == InitGreen /\ [][TickGreen]_vars

CeilDiv(a, b) == IF a % b = 0 THEN a \div b ELSE a \div b + 1

\* a tick has just completed in which no organism was created, so that no
\* organism was split
GreenTickDone ==
    /\ last.kind \in {"bot", "skip", "vacant"}
    /\ ~panicked
    /\ scan = 0
    /\ born = {}

\* the cells of the green organisms that had energy when that tick started; an
\* organism that aging damage hit in the tick is green no longer
GreenResidents ==
    {k \in Organisms(pre) :
        pre.field.inner[k].code = GreenProgram /\ pre.field.inner[k].energy > 0}

\* C10: a green organism with energy e > 0 at row r that is neither attacked
\* nor split during a tick ends the tick with energy
\* e + light(r) - ceil((e + light(r)) / max_cell_size); in the scenario
\* (e = 40, light = 3, max_cell_size = 500) it has energy 60 after 10 ticks.
C10_GreenEnergy ==
    /\ GreenTickDone =>
          \A k \in GreenResidents :
              /\ IsOrganism(world.field.inner[k])
              /\ world.field.inner[k].code = GreenProgram =>
                    world.field.inner[k].energy
                        = pre.field.inner[k].energy
                          + get_light(pre.config, pos_of(pre, k)[1])
                          - CeilDiv(pre.field.inner[k].energy
                                        + get_light(pre.config, pos_of(pre, k)[1]),
                                    pre.config.max_cell_size)
    /\ (world.config = ScenarioConfig /\ scan = 0 /\ world.measure_steps = 10)
          => cell_at(world.field, <<3, 3>>).energy = 60

(***************************************************************************)
(* Minerals: a world of one row that holds two organisms, placed by        *)
(* populate, whose programs take up, use, share and inherit minerals, and  *)
(* then only ticks.  With start energy 1 an organism starves in the second *)
(* tick and leaves a dead body; with start energy 4 organisms clone and    *)
(* are split.                                                              *)
(***************************************************************************)
RowGrid == <<3, 1>>

\* r2 <- 1 (Right) by way of r0
FaceRight == <<Op("LoadInt", 1), Op("CopyRegisters", 2)>>

SynthEater ==
    program_of(<<Op("Sythesize", 0)>> \o FaceRight \o <<Op("Eat", 0)>>, Op("Eat", 0))
MineralSharer ==
    program_of(FaceRight \o <<Op("LoadInt", 3), Op("ShareMinerals", 0)>>,
               Op("ShareMinerals", 0))
MineralUser ==
    program_of(<<Op("LoadInt", 2), Op("UseMinerals", 0)>>, Op("UseMinerals", 0))
CloneRight ==
    program_of(<<Op("Sythesize", 0)>> \o FaceRight \o <<Op("Clone", 255)>>,
               Op("Sythesize", 0))

MineralPrograms == {IdleProgram, SynthEater, MineralSharer, MineralUser, CloneRight}

MineralWorlds ==
    {populate(empty(RowGrid[1], RowGrid[2], [SmallConfig EXCEPT !.start_energy = e]),
              cells, prog, 1) :
        e \in {1, SmallConfig.start_energy},
        cells \in {c \in SUBSET (0..(RowGrid[1] * RowGrid[2] - 1)) : Cardinality(c) = 2},
        prog \in [0..(RowGrid[1] * RowGrid[2] - 1) -> MineralPrograms]}

InitMinerals ==
    /\ world \in MineralWorlds
    /\ scan = 0
    /\ row = 0
    /\ panicked = FALSE
    /\ execs = <<0, 0>>
    /\ born = {}
    /\ visited = {}
    /\ last = NoLast
    /\ hits = 0
    /\ populated = 2
    /\ shiftIn = NoShift
    /\ shiftOut = NotShifted
    /\ pre = NoWorld
    /\ server = NoServer
    /\ internal_buffer = <<>>
    /\ printing = NotPrinting

TickMinerals ==
    /\ world.measure_steps < MineralTicks
    /\ TickLoop
    /\ UNCHANGED <<server, internal_buffer, printing>>

SpecMinerals == InitMinerals /\ [][TickMinerals]_vars

\* C4: every organism of the grid holds at most max_minerals minerals, whatever
\* was taken up in the prelude, eaten from a dead body, received by
\* ShareMinerals, used by UseMinerals or handed to a child.
C4_MineralsBounded ==
    \A k \in Organisms(world) :
        world.field.inner[k].stored_minerals <= world.config.max_minerals

\* a bot that held minerals up to one short of the limit ate a dead body and
\* holds exactly max_minerals
C4_Witness ==
    /\ last.kind = "bot"
    /\ last.action.type = "TryEat"
    /\ last.seen = "DeadBody"
    /\ last.m0 + get_minerals(world.config, last.pos[1]) >= world.config.max_minerals
    /\ IsEmpty(cell_at(world.field,
                       relative_shift(world.field, last.pos, last.action.dir).val))
    /\ cell_at(world.field, last.to).stored_minerals = world.config.max_minerals

(***************************************************************************)
(* WorldField::relative_shift on its own: every grid of at most MaxDim     *)
(* rows and columns, every cell of it and every direction.                 *)
(***************************************************************************)
ShiftInputs ==
    {[width |-> w, height |-> h, pos |-> <<i, j>>, direction |-> d] :
        w \in 1..MaxDim, h \in 1..MaxDim, i \in 0..(MaxDim - 1),
        j \in 0..(MaxDim - 1), d \in Directions}

InitShift ==
    /\ shiftIn \in {x \in ShiftInputs : x.pos[1] < x.height /\ x.pos[2] < x.width}
    /\ shiftOut = NotShifted
    /\ world = empty(shiftIn.width, shiftIn.height, SmallConfig)
    /\ scan = 0
    /\ row = 0
    /\ panicked = FALSE
    /\ execs = <<>>
    /\ born = {}
    /\ visited = {}
    /\ last = NoLast
    /\ hits = 0
    /\ populated = 0
    /\ pre = NoWorld
    /\ server = NoServer
    /\ internal_buffer = <<>>
    /\ printing = NotPrinting

ApplyShift ==
    /\ ~shiftOut.done
    /\ shiftOut' = [done |-> TRUE,
                    res |-> relative_shift(world.field, shiftIn.pos, shiftIn.direction)]
    /\ UNCHANGED <<world, scan, row, panicked, execs, born, visited, last, hits, populated, shiftIn,
                   pre, server, internal_buffer, printing>>

SpecShift == InitShift /\ [][ApplyShift]_vars

\* C7: a shift Up from row 0 and a shift Down from the last row are None; every
\* other vertical shift is Some of the cell one row up or down in the same
\* column (no vertical wrap).
C7_VerticalWall ==
    shiftOut.done =>
        /\ (shiftIn.direction = "Up" /\ shiftIn.pos[1] = 0) => shiftOut.res = None
        /\ (shiftIn.direction = "Down" /\ shiftIn.pos[1] = shiftIn.height - 1)
              => shiftOut.res = None
        /\ (shiftIn.direction = "Up" /\ shiftIn.pos[1] > 0)
              => shiftOut.res = Some(<<shiftIn.pos[1] - 1, shiftIn.pos[2]>>)
        /\ (shiftIn.direction = "Down" /\ shiftIn.pos[1] < shiftIn.height - 1)
              => shiftOut.res = Some(<<shiftIn.pos[1] + 1, shiftIn.pos[2]>>)

C7_Witness ==
    /\ shiftOut.done
    /\ shiftIn.height = MaxDim
    /\ shiftIn.direction = "Down"
    /\ shiftIn.pos[1] = shiftIn.height - 1
    /\ shiftOut.res = None

\* C8: a shift Left or Right is never None: it is Some of the cell of the same
\* row in column (j - 1) mod W or (j + 1) mod W; from column 0 Left gives column
\* W - 1, from column W - 1 Right gives column 0.
C8_HorizontalWrap ==
    shiftOut.done =>
        /\ shiftIn.direction = "Left"
              => shiftOut.res = Some(<<shiftIn.pos[1],
                                       (shiftIn.pos[2] + shiftIn.width - 1) % shiftIn.width>>)
        /\ shiftIn.direction = "Right"
              => shiftOut.res = Some(<<shiftIn.pos[1],
                                       (shiftIn.pos[2] + 1) % shiftIn.width>>)
        /\ (shiftIn.direction = "Left" /\ shiftIn.pos[2] = 0)
              => shiftOut.res = Some(<<shiftIn.pos[1], shiftIn.width - 1>>)
        /\ (shiftIn.direction = "Right" /\ shiftIn.pos[2] = shiftIn.width - 1)
              => shiftOut.res = Some(<<shiftIn.pos[1], 0>>)

C8_Witness ==
    /\ shiftOut.done
    /\ shiftIn.width = MaxDim
    /\ shiftIn.direction = "Left"
    /\ shiftIn.pos[2] = 0
    /\ shiftOut.res = Some(<<shiftIn.pos[1], shiftIn.width - 1>>)

(***************************************************************************)
(* World::process_bot on its own, stage by stage: run_bot_prelude, then    *)
(* run_bot_action, then the rest (mark_tick, death, forced split,          *)
(* postlude).  The worlds hold a new-made organism (id 1) at cell 0 with   *)
(* energy E, M minerals and one of StepPrograms, and in its neighbour      *)
(* cells nothing, a dead body or a green organism (id 2).  pre is the      *)
(* world before the stage, last says what the stage did.                   *)
(***************************************************************************)
StepConfig == [SmallConfig EXCEPT !.minerals_behaviour = Const(1)]

EatRight == program_of(FaceRight \o <<Op("Eat", 0)>>, Op("Eat", 0))
EatUp == uniform_program(Op("Eat", 0))
CloneNow(rate) == program_of(FaceRight \o <<Op("Clone", rate)>>, Op("Clone", rate))
ShareRight(v) ==
    program_of(FaceRight \o <<Op("LoadInt", v), Op("Share", 0)>>, Op("Share", 0))
ShareUp(v) == program_of(<<Op("LoadInt", v), Op("Share", 0)>>, Op("Share", 0))
MoveRight == program_of(FaceRight \o <<Op("MoveRelative", 0)>>, Op("MoveRelative", 0))
\* JumpUnconditional(0) in every position: a loop of one instruction
JumpLoop == uniform_program(Op("JumpUnconditional", 0))
\* LoadInt(1), then a jump by 255 from position 1 back to position 0
TwoLoop == program_of(<<Op("LoadInt", 1), Op("JumpUnconditional", 255)>>, Op("Eat", 0))
\* seventeen instructions that return nothing, then Eat
LateEat == program_of([k \in 1..17 |-> Op("Flip", 0)], Op("Eat", 0))

StepPrograms ==
    {EatRight, EatUp, CloneNow(255), CloneNow(128), ShareRight(3), ShareUp(3),
     MoveRight, JumpLoop, TwoLoop, LateEat, IdleProgram, GreenProgram}

StepEnergies == {0, 1, 2, 5, 8, 9, 20}
StepMinerals == {0, 3, 4}

NeighbourCells(config) ==
    {Empty}
    \cup {DeadBody(config.dead_energy, m) : m \in {0, 4}}
    \cup {green(t, 2) : t \in {1, 2, 3, 6}}

\* the cells of a world, given from cell 0 on; the cells not given are Empty
with_cells(w, cells) ==
    [w EXCEPT !.field.inner =
        [k \in DOMAIN w.field.inner |-> IF k < Len(cells) THEN cells[k + 1] ELSE Empty]]

\* the predation scenario: eater with energy 100 at (4, 4), green prey with
\* energy 40 at (4, 5)
PredationWorld ==
    set_cell(set_cell(empty(ScenarioGrid[1], ScenarioGrid[2], ScenarioConfig),
                      <<4, 4>>, with_program(100, 0, EatRight, 1)),
             <<4, 5>>, green(40, 2))

StepStarts ==
    {[w |-> with_cells(empty(RowGrid[1], RowGrid[2], StepConfig),
                       <<with_program(e, m, prog, 1), c1, c2>>),
      pos |-> <<0, 0>>] :
        e \in StepEnergies, m \in StepMinerals, prog \in StepPrograms,
        c1 \in NeighbourCells(StepConfig),
        c2 \in {Empty, DeadBody(StepConfig.dead_energy, 0)}}
    \cup {[w |-> with_cells(empty(1, 2, StepConfig), <<with_program(e, m, prog, 1), c1>>),
           pos |-> <<0, 0>>] :
             e \in StepEnergies, m \in StepMinerals, prog \in StepPrograms,
             c1 \in NeighbourCells(StepConfig)}
    \cup {[w |-> PredationWorld, pos |-> <<4, 4>>]}

InitStep ==
    /\ \E st \in StepStarts :
          /\ world = st.w
          /\ last = [NoLast EXCEPT !.kind = "start", !.pos = st.pos, !.to = st.pos, !.id = 1]
    /\ pre = NoWorld
    /\ scan = 0
    /\ row = 0
    /\ panicked = FALSE
    /\ execs = <<0, 0>>
    /\ born = {}
    /\ visited = {}
    /\ hits = 0
    /\ populated = 0
    /\ shiftIn = NoShift
    /\ shiftOut = NotShifted
    /\ server = NoServer
    /\ internal_buffer = <<>>
    /\ printing = NotPrinting

\* the id a child of the step gets
StepChildId == 3

\* process_bot: run_bot_prelude
StepPrelude ==
    /\ last.kind = "start"
    /\ \E damage \in DamageInputs(world.config, hits) :
          /\ world' = prelude_world(world, last.pos, damage)
          /\ hits' = IF damage.hit THEN hits + 1 ELSE hits
    /\ pre' = world
    /\ last' = [last EXCEPT !.kind = "prelude"]
    /\ UNCHANGED <<scan, row, panicked, execs, born, visited, populated, shiftIn, shiftOut, server, internal_buffer, printing>>

\* the history of the stage that ran run_bot_action with result r on the bot `cell`
ActionLast(cell, inp, r) ==
    [last EXCEPT !.kind = "action", !.to = r.pos, !.iter = world.iteration,
                 !.e0 = cell.energy, !.m0 = cell.stored_minerals,
                 !.action = r.action, !.executed = r.executed, !.child = r.child,
                 !.died = ~r.ok, !.fault = r.fault, !.chance = inp.chance,
                 !.seen = seen_kind(look_relative(world.field, last.pos, r.action.dir))]

\* process_bot: run_bot_action
StepAction ==
    /\ last.kind = "prelude"
    /\ \E inp \in InputsAfterPrelude(world, last.pos, NoHit, StepChildId) :
          LET r == run_bot_action(world, last.pos, inp.rnd, inp.chance, inp.lossy,
                                  StepChildId)
          IN  /\ world' = r.w
              /\ panicked' = r.fault
              /\ last' = ActionLast(cell_at(world.field, last.pos), inp, r)
    /\ pre' = world
    /\ UNCHANGED <<scan, row, execs, born, visited, hits, populated, shiftIn, shiftOut, server, internal_buffer, printing>>

\* the result of run_bot_action, as the stage before left it
StepAct ==
    [w |-> world, pos |-> last.to, ok |-> ~last.died, fault |-> FALSE,
     action |-> last.action, executed |-> last.executed, child |-> last.child]

\* process_bot from mark_tick on
StepFinish ==
    /\ last.kind = "action"
    /\ ~panicked
    /\ \E rdir \in Directions :
       \E lossy2 \in LossyInputs(world.config, may_split(StepAct)) :
          LET r == after_action(StepAct, rdir, lossy2, StepChildId)
          IN  /\ world' = r.w
              /\ panicked' = r.fault
              /\ last' = [last EXCEPT !.kind = "finish", !.split = r.split,
                                      !.died = r.died, !.fault = r.fault, !.rdir = rdir]
    /\ pre' = world
    /\ UNCHANGED <<scan, row, execs, born, visited, hits, populated, shiftIn, shiftOut, server, internal_buffer, printing>>

NextStep == StepPrelude \/ StepAction \/ StepFinish

SpecStep == InitStep /\ [][NextStep]_vars

\* the bot of the step before and after the last stage, and the cell its action
\* was aimed at
BotBefore == cell_at(pre.field, IF last.kind = "finish" THEN last.to ELSE last.pos)
BotAfter == cell_at(world.field, last.to)
Aimed == relative_shift(pre.field, last.pos, last.action.dir)
\* the cells that were Empty before the last stage and hold an organism after it
NewOrganisms ==
    {k \in DOMAIN world.field.inner :
        IsEmpty(pre.field.inner[k]) /\ IsOrganism(world.field.inner[k])}
\* the cells other than the bot's that the last stage changed
ChangedCells ==
    {k \in DOMAIN world.field.inner :
        k # field_index(world.field, last.pos)
        /\ world.field.inner[k] # pre.field.inner[k]}

Resolved(type) ==
    /\ last.kind = "action"
    /\ ~last.fault
    /\ last.action.type = type

\* C11: when a bot with energy > attack_cost resolves TryEat against an Alive
\* neighbour with energy t and the attack succeeds, the neighbour's cell becomes
\* Empty and the bot's energy changes by -attack_cost + max(0, t - dead_energy) / 2,
\* before the postlude.
C11_EatAlive ==
    (/\ Resolved("TryEat")
     /\ last.seen = "Organism"
     /\ BotBefore.energy > world.config.attack_cost
     /\ last.chance)
    => /\ IsEmpty(cell_at(world.field, Aimed.val))
       /\ IsOrganism(BotAfter)
       /\ BotAfter.energy
            = BotBefore.energy - world.config.attack_cost
              + Max(0, cell_at(pre.field, Aimed.val).energy - world.config.dead_energy)
                    \div 2

\* a prey with more energy than dead_energy was eaten
C11_Witness ==
    /\ Resolved("TryEat")
    /\ last.seen = "Organism"
    /\ last.chance
    /\ cell_at(pre.field, Aimed.val).energy > world.config.dead_energy + 1
    /\ IsEmpty(cell_at(world.field, Aimed.val))
    /\ BotAfter.energy > BotBefore.energy

\* the eater of the predation scenario has eaten its prey
PredationAte ==
    /\ world.config = ScenarioConfig
    /\ last.kind \in {"action", "finish"}
    /\ last.action.type = "TryEat"
    /\ last.seen = "Organism"
    /\ last.chance

\* C12 as stated: in the predation scenario, when the attack succeeds the cell
\* (4, 5) becomes Empty and the eater nets an energy of 90.
C12_EaterNetsNinety ==
    PredationAte
    => /\ IsEmpty(cell_at(world.field, <<4, 5>>))
       /\ cell_at(world.field, <<4, 4>>).energy = 90

\* C12: in the predation scenario, when the attack succeeds the cell (4, 5)
\* becomes Empty and the eater, which pays attack_cost = 10 and gains
\* (40 - 20) / 2 = 10, has energy 100 after the action and 99 after the postlude
\* of its step.
C12_EaterNetsHundred ==
    PredationAte
    => /\ IsEmpty(cell_at(world.field, <<4, 5>>))
       /\ IsOrganism(cell_at(world.field, <<4, 4>>))
       /\ cell_at(world.field, <<4, 4>>).energy
            = IF last.kind = "action" THEN 100 ELSE 99

C12_Witness ==
    /\ PredationAte
    /\ last.kind = "finish"
    /\ BotBefore.energy = 100
    /\ cell_at(world.field, <<4, 4>>).energy = 99
    /\ IsEmpty(cell_at(world.field, <<4, 5>>))

\* C13: when a bot resolves TryEat against a neighbour that is Dead(e, m), with
\* whatever energy, the neighbour's cell becomes Empty, the bot's energy grows by
\* e / 2 and its minerals by min(m / 2, max_minerals - stored_minerals).
C13_EatDead ==
    (Resolved("TryEat") /\ last.seen = "DeadBody")
    => /\ IsEmpty(cell_at(world.field, Aimed.val))
       /\ IsOrganism(BotAfter)
       /\ BotAfter.energy = BotBefore.energy + cell_at(pre.field, Aimed.val).energy \div 2
       /\ BotAfter.stored_minerals
            = BotBefore.stored_minerals
              + Min(cell_at(pre.field, Aimed.val).minerals \div 2,
                    world.config.max_minerals - BotBefore.stored_minerals)

\* a bot that could not pay for an attack ate a dead body, and the limit cut
\* the minerals it took
C13_Witness ==
    /\ Resolved("TryEat")
    /\ last.seen = "DeadBody"
    /\ BotBefore.energy <= world.config.attack_cost
    /\ cell_at(pre.field, Aimed.val).minerals \div 2
         > world.config.max_minerals - BotBefore.stored_minerals
    /\ BotAfter.stored_minerals = world.config.max_minerals
    /\ BotAfter.energy > BotBefore.energy

\* C14: TryClone(childE, childM, dir) creates a child if and only if the
\* neighbour in dir is Empty and the parent's energy is >= 2 * childE; the child
\* has energy childE, childM minerals, ip 0 and zeroed registers, and the parent
\* loses childE energy and childM minerals; otherwise the parent's resources and
\* the grid do not change.
C14_CloneIff ==
    Resolved("TryClone")
    => /\ (NewOrganisms # {})
            <=> (last.seen = "Empty" /\ BotBefore.energy >= 2 * last.action.a)
       /\ IsOrganism(BotAfter)
       /\ (NewOrganisms # {})
            => /\ NewOrganisms = {field_index(world.field, Aimed.val)}
               /\ cell_at(world.field, Aimed.val).energy = last.action.a
               /\ cell_at(world.field, Aimed.val).stored_minerals = last.action.b
               /\ cell_at(world.field, Aimed.val).ip = 0
               /\ cell_at(world.field, Aimed.val).registers = zero_registers
               /\ BotAfter.energy = BotBefore.energy - last.action.a
               /\ BotAfter.stored_minerals = BotBefore.stored_minerals - last.action.b
               /\ ChangedCells = NewOrganisms
       /\ (NewOrganisms = {})
            => /\ BotAfter.energy = BotBefore.energy
               /\ BotAfter.stored_minerals = BotBefore.stored_minerals
               /\ ChangedCells = {}

\* a parent gave its child more than start_energy, and minerals
C14_Witness ==
    /\ Resolved("TryClone")
    /\ NewOrganisms # {}
    /\ last.action.a > world.config.start_energy
    /\ last.action.b > 0
    /\ BotAfter.energy = BotBefore.energy - last.action.a

\* the last stage was the forced split and postlude of a bot that has no
\* can_clone flag and whose split split_behaviour approves
SplitDue ==
    /\ last.kind = "finish"
    /\ IsOrganism(BotBefore)
    /\ ~BotBefore.can_clone
    /\ split_behaviour(world.config, BotBefore.energy, BotBefore.stored_minerals).ok

SplitSize == split_behaviour(world.config, BotBefore.energy, BotBefore.stored_minerals)

\* the neighbours of the bot that were Empty before the stage
EmptyNeighbours ==
    {d \in Directions :
        /\ relative_shift(pre.field, last.to, d).some
        /\ IsEmpty(cell_at(pre.field, relative_shift(pre.field, last.to, d).val))}

ParentPaid ==
    /\ BotAfter.stored_minerals = BotBefore.stored_minerals - SplitSize.minerals
    /\ BotAfter.energy
         = BotBefore.energy - SplitSize.energy
           - CeilDiv(BotBefore.energy - SplitSize.energy, world.config.max_cell_size)

ParentKept ==
    /\ BotAfter.stored_minerals = BotBefore.stored_minerals
    /\ BotAfter.energy
         = IF last.fault THEN BotBefore.energy
           ELSE BotBefore.energy - CeilDiv(BotBefore.energy, world.config.max_cell_size)

\* C15 as stated: the forced split of a bot without can_clone whose split is
\* approved places the child in an Empty neighbour and deducts cE / cM from the
\* parent; the child is discarded, the parent keeping its resources, only when
\* the bot has no Empty neighbour.
C15_SplitIntoAnyEmpty ==
    (SplitDue /\ ~last.fault)
    => IF EmptyNeighbours # {}
       THEN Cardinality(NewOrganisms) = 1 /\ ParentPaid
       ELSE NewOrganisms = {} /\ ParentKept

\* C15: the forced split draws one direction; the child (energy cE, cM
\* minerals) is placed, and cE / cM deducted from the parent, exactly when the
\* neighbour in that direction is another cell and Empty; in every other case no
\* child is created and the parent keeps its resources.
C15_SplitIntoDrawnDirection ==
    SplitDue
    => IF ~last.fault /\ last.rdir \in EmptyNeighbours
       THEN /\ NewOrganisms
                 = {field_index(world.field,
                                relative_shift(pre.field, last.to, last.rdir).val)}
            /\ \A k \in NewOrganisms :
                  /\ world.field.inner[k].energy = SplitSize.energy
                  /\ world.field.inner[k].stored_minerals = SplitSize.minerals
            /\ ParentPaid
       ELSE NewOrganisms = {} /\ ParentKept

\* the child went Left, over the edge of the row, into the last column
C15_Witness ==
    /\ SplitDue
    /\ last.rdir = "Left"
    /\ NewOrganisms = {world.width - 1}
    /\ world.width > 2
    /\ ParentPaid

\* C16: a bot whose can_clone flag is true is never split by the scheduler: in
\* no stage of its step but run_bot_action with a TryClone of its VM does a new
\* organism appear.
C16_ClonersNotSplit ==
    (last.kind \in {"prelude", "action", "finish"} /\ IsOrganism(BotBefore)
        /\ BotBefore.can_clone)
    => (NewOrganisms # {} => (last.kind = "action" /\ last.action.type = "TryClone"))

\* a bot with can_clone whose split split_behaviour approves, next to an Empty
\* cell in the direction drawn, was not split
C16_Witness ==
    /\ last.kind = "finish"
    /\ ~last.fault
    /\ IsOrganism(BotBefore)
    /\ BotBefore.can_clone
    /\ split_behaviour(world.config, BotBefore.energy, BotBefore.stored_minerals).ok
    /\ last.rdir \in EmptyNeighbours
    /\ NewOrganisms = {}

\* the neighbour a Share was aimed at is the bot's own cell
SharedWithSelf == Aimed.some /\ Aimed.val = last.pos

ShareAmount == Min(BotAfter.registers[0], BotBefore.energy)

ShareCredited ==
    IF last.seen = "Organism" /\ ~SharedWithSelf
    THEN /\ ChangedCells = {field_index(world.field, Aimed.val)}
         /\ cell_at(world.field, Aimed.val).energy
              = cell_at(pre.field, Aimed.val).energy + ShareAmount
    ELSE ChangedCells = {}

\* C17 as stated: a bot with energy E that executes Share with r0 = v loses
\* k = min(v, E) whatever its neighbour is; an Alive neighbour gains k; next to an
\* Empty or Dead cell or the edge of the grid no cell gains anything.
C17_ShareDebitsAlways ==
    Resolved("ShareEnergy")
    => /\ last.action.a = ShareAmount
       /\ BotAfter.energy = BotBefore.energy - ShareAmount
       /\ ShareCredited

\* C17: the same, but on a grid one cell wide, where the neighbour to the Left
\* and to the Right is the bot's own cell, the bot is credited what it was
\* debited and its energy does not change.
C17_ShareDebitsUnlessSelf ==
    Resolved("ShareEnergy")
    => /\ last.action.a = ShareAmount
       /\ BotAfter.energy
            = IF SharedWithSelf THEN BotBefore.energy
              ELSE BotBefore.energy - ShareAmount
       /\ ShareCredited

\* a bot with less energy than r0 gave all of it to a dead body
C17_Witness ==
    /\ Resolved("ShareEnergy")
    /\ last.seen = "DeadBody"
    /\ BotBefore.energy < BotAfter.registers[0]
    /\ BotBefore.energy > 0
    /\ BotAfter.energy = 0
    /\ cell_at(world.field, Aimed.val) = cell_at(pre.field, Aimed.val)

\* C18: one call of Organism::tick executes at most 16 instructions and returns
\* one action or none; when the current instruction is JumpUnconditional(0) it
\* executes it 16 times, returns None and leaves ip as it was.
C18_BurstBounded ==
    last.kind = "action"
    => /\ last.executed <= BURST
       /\ last.action.type \in {"None", "TryMove", "TryEat", "Die", "TryClone",
                                "ShareEnergy", "ShareMinerals"}
       /\ (BotBefore.energy > 0
             /\ code_at(BotBefore.code, BotBefore.ip) = Op("JumpUnconditional", 0))
            => /\ last.executed = BURST
               /\ last.action = NoAction
               /\ BotAfter.ip = BotBefore.ip
               /\ BotAfter.energy = BotBefore.energy

\* a program of JumpUnconditional(0) ran its 16 instructions
C18_Witness ==
    /\ last.kind = "action"
    /\ BotBefore.code = JumpLoop
    /\ BotBefore.energy > 0
    /\ last.executed = BURST
    /\ last.action = NoAction
    /\ BotAfter.ip = 0

(***************************************************************************)
(* World::populate on its own: one call of populate_green or               *)
(* populate_random for n organisms, on every 2 x 2 world whose cells are   *)
(* Empty, a dead body or an organism.                                      *)
(***************************************************************************)
PopulateCells(k) == {Empty, DeadBody(SmallConfig.dead_energy, 1), green(7, k + 1)}

PopulateWorlds ==
    {with_cells(empty(SmallGrid[1], SmallGrid[2], SmallConfig), <<c0, c1, c2, c3>>) :
        c0 \in PopulateCells(0), c1 \in PopulateCells(1),
        c2 \in PopulateCells(2), c3 \in PopulateCells(3)}

InitPopulate ==
    /\ world \in PopulateWorlds
    /\ pre = NoWorld
    /\ last = NoLast
    /\ scan = 0
    /\ row = 0
    /\ panicked = FALSE
    /\ execs = <<0, 0, 0, 0>>
    /\ born = {}
    /\ visited = {}
    /\ hits = 0
    /\ populated = 0
    /\ shiftIn = NoShift
    /\ shiftOut = NotShifted
    /\ server = NoServer
    /\ internal_buffer = <<>>
    /\ printing = NotPrinting

\* populate_green(n) / populate_random(n)
PopulateCall ==
    /\ last.kind = "none"
    /\ \E n \in 0..MaxRequest :
       \E free_cells \in Shuffles(get_free_cells(world)) :
       \E isGreen \in BOOLEAN :
       \E prog \in [get_free_cells(world) ->
                       IF isGreen THEN {GreenProgram} ELSE RandomPrograms] :
          LET r == populate_loop(world, free_cells, n, prog, Len(execs) + 1)
          IN  /\ world' = r.w
              /\ last' = [NoLast EXCEPT !.kind = "populate", !.requested = n,
                                        !.ok = populate_result(r.number_of_bots).ok,
                                        !.shortfall = populate_result(r.number_of_bots).err]
              /\ populated' = populated + n
    /\ pre' = world
    /\ UNCHANGED <<scan, row, panicked, execs, born, visited, hits, shiftIn, shiftOut, server, internal_buffer, printing>>

SpecPopulate == InitPopulate /\ [][PopulateCall]_vars

\* C19: populate_green(n) / populate_random(n) on a world with k Empty cells
\* turns exactly min(n, k) Empty cells into organisms with energy start_energy
\* and no minerals, changes no other cell, and returns Ok when n <= k and
\* Err(n - k) when n > k.
C19_PopulateFills ==
    last.kind = "populate"
    => /\ Cardinality(NewOrganisms) = Min(last.requested, Cardinality(get_free_cells(pre)))
       /\ \A k \in NewOrganisms :
             /\ world.field.inner[k].energy = world.config.start_energy
             /\ world.field.inner[k].stored_minerals = 0
       /\ \A k \in DOMAIN world.field.inner :
             k \notin NewOrganisms => world.field.inner[k] = pre.field.inner[k]
       /\ last.requested <= Cardinality(get_free_cells(pre))
             => (last.ok /\ last.shortfall = 0)
       /\ last.requested > Cardinality(get_free_cells(pre))
             => /\ ~last.ok
                /\ last.shortfall = last.requested - Cardinality(get_free_cells(pre))

\* a call for more organisms than there were Empty cells filled them all and
\* returned Err
C19_Witness ==
    /\ last.kind = "populate"
    /\ Cardinality(get_free_cells(pre)) = 2
    /\ last.requested = 4
    /\ ~last.ok
    /\ last.shortfall = 2
    /\ Cardinality(NewOrganisms) = 2
    /\ get_free_cells(world) = {}

(***************************************************************************)
(* The server (main.rs, api.rs): the world inside ServerState behind one   *)
(* parking_lot::Mutex, the worker that ticks it, the measurement task and  *)
(* a handler that serves one request after another.  server.pc[t] is       *)
(* "idle" before state.lock(), "locked" after it, "ticking" inside         *)
(* World::tick and "done" before the guard is dropped.  server.torn says   *)
(* that a task read or wrote the world while a tick of another task was    *)
(* under way, server.worker_ticks how many calls of World::tick the worker *)
(* has completed since its last state.lock().                              *)
(***************************************************************************)
Requests == {"get_map", "pause", "spawn_green", "spawn_random", "tick"}

ServerPrograms == {IdleProgram}

lock_free_always(sv) == TRUE

\* parking_lot::Mutex::lock returns once no other task holds the guard
lock_free(sv) == sv.lock = "none"

InitServer ==
    /\ world = empty(SmallGrid[1], SmallGrid[2], SmallConfig)
    /\ server = NoServer
    /\ internal_buffer = <<>>
    /\ printing = NotPrinting
    /\ pre = NoWorld
    /\ last = NoLast
    /\ scan = 0
    /\ row = 0
    /\ panicked = FALSE
    /\ execs = <<>>
    /\ born = {}
    /\ visited = {}
    /\ hits = 0
    /\ populated = 0
    /\ shiftIn = NoShift
    /\ shiftOut = NotShifted

\* let mut state = state.lock(): the worker, the measurement task, or the
\* handler of the request req
Lock(t, req) ==
    /\ server.pc[t] = "idle"
    /\ lock_free(server)
    /\ world.measure_steps < ServerTicks
    /\ UNCHANGED <<internal_buffer, printing>>
    /\ server' = [server EXCEPT !.lock = t, !.pc[t] = "locked",
                                !.req = IF t = "handler" THEN req ELSE @]
    /\ UNCHANGED <<world, scan, row, panicked, execs, born, visited, last, hits, populated,
                   shiftIn, shiftOut, pre>>

\* the end of the scope of the guard
Unlock(t) ==
    /\ server.pc[t] = "done"
    /\ UNCHANGED <<internal_buffer, printing>>
    /\ server' = [server EXCEPT !.lock = IF @ = t THEN "none" ELSE @, !.pc[t] = "idle",
                                !.req = IF t = "handler" THEN "none" ELSE @,
                                !.worker_ticks = IF t = "worker" THEN 0 ELSE @]
    /\ UNCHANGED <<world, scan, row, panicked, execs, born, visited, last, hits, populated,
                   shiftIn, shiftOut, pre>>

Ticks_whether_paused_or_not(t) ==
    \/ t = "worker"
    \/ t = "handler" /\ server.req = "tick"

\* whether task t, holding the guard, calls World::tick
Ticks(t) ==
    \/ t = "worker" /\ ~server.paused
    \/ t = "handler" /\ server.req = "tick"

\* world.tick() of the worker (if not paused) and of api::tick, one cell at a time
ServerTick(t) ==
    /\ server.pc[t] \in {"locked", "ticking"}
    /\ Ticks(t)
    /\ TickLoop
    /\ UNCHANGED <<internal_buffer, printing>>
    /\ server' = [server EXCEPT !.pc[t] = IF scan' = 0 /\ ~panicked' THEN "done"
                                          ELSE "ticking",
                                !.worker_ticks =
                                    IF t = "worker" /\ scan' = 0 /\ ~panicked'
                                    THEN @ + 1 ELSE @]

\* the worker finds state.paused set
WorkerPaused ==
    /\ server.pc["worker"] = "locked"
    /\ server.paused
    /\ UNCHANGED <<internal_buffer, printing>>
    /\ server' = [server EXCEPT !.pc["worker"] = "done"]
    /\ UNCHANGED <<world, scan, row, panicked, execs, born, visited, last, hits, populated,
                   shiftIn, shiftOut, pre>>

\* state.take_measure(): reads the step counter of the world
TakeMeasure ==
    /\ server.pc["measure"] = "locked"
    /\ UNCHANGED <<internal_buffer, printing>>
    /\ server' = [server EXCEPT !.pc["measure"] = "done",
                                !.previous_step = world.measure_steps,
                                !.torn = @ \/ scan # 0]
    /\ UNCHANGED <<world, scan, row, panicked, execs, born, visited, last, hits, populated,
                   shiftIn, shiftOut, pre>>

\* api::get_map: reads every cell of the world
GetMap ==
    /\ server.pc["handler"] = "locked"
    /\ server.req = "get_map"
    /\ UNCHANGED <<internal_buffer, printing>>
    /\ server' = [server EXCEPT !.pc["handler"] = "done", !.torn = @ \/ scan # 0]
    /\ UNCHANGED <<world, scan, row, panicked, execs, born, visited, last, hits, populated,
                   shiftIn, shiftOut, pre>>

\* api::pause
Pause ==
    /\ server.pc["handler"] = "locked"
    /\ server.req = "pause"
    /\ UNCHANGED <<internal_buffer, printing>>
    /\ server' = [server EXCEPT !.pc["handler"] = "done", !.paused = ~@]
    /\ UNCHANGED <<world, scan, row, panicked, execs, born, visited, last, hits, populated,
                   shiftIn, shiftOut, pre>>

\* api::spawn_green / api::spawn_random
Spawn ==
    /\ server.pc["handler"] = "locked"
    /\ server.req \in {"spawn_green", "spawn_random"}
    /\ \E n \in 0..(ServerSpawns - populated) :
       \E free_cells \in Shuffles(get_free_cells(world)) :
       \E prog \in [get_free_cells(world) ->
                       IF server.req = "spawn_green" THEN {GreenProgram}
                       ELSE ServerPrograms] :
          LET r == populate_loop(world, free_cells, n, prog, Len(execs) + 1)
          IN  /\ world' = r.w
              /\ execs' = execs \o Zeros(n - r.number_of_bots)
              /\ populated' = populated + n
              /\ last' = [NoLast EXCEPT !.kind = "populate", !.requested = n,
                                        !.ok = populate_result(r.number_of_bots).ok,
                                        !.shortfall = populate_result(r.number_of_bots).err,
                                        !.iter = world.iteration]
    /\ UNCHANGED <<internal_buffer, printing>>
    /\ server' = [server EXCEPT !.pc["handler"] = "done", !.torn = @ \/ scan # 0]
    /\ UNCHANGED <<scan, row, panicked, born, visited, hits, shiftIn, shiftOut, pre>>

NextServer ==
    \/ \E t \in Tasks : \E req \in Requests : Lock(t, req)
    \/ \E t \in Tasks : Unlock(t)
    \/ \E t \in Tasks : ServerTick(t)
    \/ WorkerPaused
    \/ TakeMeasure
    \/ GetMap
    \/ Pause
    \/ Spawn

SpecServer == InitServer /\ [][NextServer]_vars

\* the tasks that hold the guard
Holders == {t \in Tasks : server.pc[t] # "idle"}

\* C20: a tick is atomic: the worker, the measurement task and the handlers
\* touch the world only while they hold the one mutex, so at most one task is
\* past its state.lock(), while a tick is under way that task is the one that
\* ticks, and no task reads or writes the world in the middle of a tick of
\* another.
C20_TickAtomic ==
    /\ Cardinality(Holders) <= 1
    /\ Holders \subseteq {server.lock}
    /\ ~server.torn
    /\ (scan # 0 /\ ~panicked)
          => \E t \in Holders : server.pc[t] = "ticking" /\ Ticks(t)

\* in the middle of a tick of the worker the two other tasks wait for the mutex
C20_Witness ==
    /\ scan # 0
    /\ server.lock = "worker"
    /\ server.pc["worker"] = "ticking"
    /\ server.pc["measure"] = "idle"
    /\ server.pc["handler"] = "idle"
    /\ Organisms(world) # {}


(***************************************************************************)
(* One bot next to one neighbour, in each of the four directions.  The bot *)
(* stands in the middle of a 3 x 3 grid, in its top left corner (where Up  *)
(* is the wall and Left wraps) or at the top of a grid one cell wide       *)
(* (where Left and Right point at the bot's own cell), turns to the        *)
(* direction d and executes one opcode; the stages are those of            *)
(* process_bot (StepPrelude, StepAction, StepFinish).                      *)
(***************************************************************************)
ProbeGrids == {<<3, 3>>, <<1, 2>>}

\* r2 <- d by way of r0, then the opcode, then photosynthesis
Probe(d, op) ==
    program_of(<<Op("LoadInt", d), Op("CopyRegisters", 2), op>>, Op("Sythesize", 0))

ProbeOps == {Op("Compare", 0), Op("Eat", 0), Op("MoveRelative", 0)}
ProbePositions(grid) == IF grid[1] = 1 THEN {<<0, 0>>} ELSE {<<1, 1>>, <<0, 0>>}
ProbeEnergies == {0, 1, 2, 5, 9}
ProbeMinerals == {0, 3}

\* the neighbours of a bot with the program prog: an organism has the same
\* program, one that differs from it in the first three opcodes, or one that
\* differs from it in every opcode
ProbeNeighbours(prog) ==
    {Empty}
    \cup {DeadBody(StepConfig.dead_energy, m) : m \in {0, 4}}
    \cup {[with_program(t, 2, q, 2) EXCEPT !.ip = 5] :
             t \in {1, 3, 6}, q \in {prog, GreenProgram, uniform_program(Op("Flip", 0))}}

\* the bot at pos, and the cell c where its direction d points, if that is
\* another cell of the grid
ProbeWorld(grid, pos, d, prog, e, m, c) ==
    LET w0 == set_cell(empty(grid[1], grid[2], StepConfig), pos,
                       with_program(e, m, prog, 1))
        t == relative_shift(w0.field, pos, direction_from_u8(d))
    IN  IF t.some /\ t.val # pos THEN set_cell(w0, t.val, c) ELSE w0

ProbeStarts ==
    UNION {{[w |-> ProbeWorld(grid, pos, d, Probe(d, op), e, m, c), pos |-> pos] :
               pos \in ProbePositions(grid), c \in ProbeNeighbours(Probe(d, op))} :
              grid \in ProbeGrids, d \in 0..3, op \in ProbeOps,
              e \in ProbeEnergies, m \in ProbeMinerals}

InitProbe ==
    /\ \E st \in ProbeStarts :
          /\ world = st.w
          /\ last = [NoLast EXCEPT !.kind = "start", !.pos = st.pos, !.to = st.pos, !.id = 1]
    /\ pre = NoWorld
    /\ scan = 0
    /\ row = 0
    /\ panicked = FALSE
    /\ execs = <<0, 0>>
    /\ born = {}
    /\ visited = {}
    /\ hits = 0
    /\ populated = 0
    /\ shiftIn = NoShift
    /\ shiftOut = NotShifted
    /\ server = NoServer
    /\ internal_buffer = <<>>
    /\ printing = NotPrinting

SpecProbe == InitProbe /\ [][NextStep]_vars

\* the bot ran Compare as its third instruction, facing the wall or another
\* cell than its own, and photosynthesis after it
Compared ==
    /\ last.kind = "action"
    /\ ~last.fault
    /\ IsOrganism(BotBefore)
    /\ BotBefore.energy > 0
    /\ code_at(BotBefore.code, 2) = Op("Compare", 0)
    /\ last.executed = 4
    /\ relative_shift(pre.field, last.pos, get_direction(BotAfter)) # Some(last.pos)
\* what the bot faced when it ran Compare
ComparedWith == look_relative(pre.field, last.pos, get_direction(BotAfter))

\* C21: when a bot executes Compare facing an Alive neighbour, r0 becomes
\* min(255, d), d being the number of positions at which the two programs hold
\* different opcodes (0 for identical programs), and r1 becomes the neighbour's
\* energy fraction; facing a dead body r0 becomes 255, facing Empty or the wall 0.
C21_CompareCountsDifferences ==
    Compared =>
        IF ComparedWith.some /\ IsOrganism(ComparedWith.cell)
        THEN /\ BotAfter.registers[0]
                   = Min(255, count_differing(BotBefore.code, ComparedWith.cell.code))
             /\ BotAfter.registers[1]
                   = into_u8_fraction(ComparedWith.cell.energy, pre.config.max_cell_size)
        ELSE IF ComparedWith.some /\ IsDeadBody(ComparedWith.cell)
        THEN BotAfter.registers[0] = 255
        ELSE BotAfter.registers[0] = 0

(***************************************************************************)
(* The stamps of World::tick, on the specification of the world (Spec).    *)
(***************************************************************************)
\* the last step was an iteration of the loop of World::tick
LoopStepped == last.kind \in {"bot", "skip", "vacant"} /\ ~panicked
\* the loop of World::tick has just run its last iteration; last.iter is the
\* iteration value of the tick that completed
TickCompleted == LoopStepped /\ scan = 0
\* the cells the loop body of that tick was at that do not carry its stamp
Unstamped == {k \in visited : world.updates[k] # last.iter}

\* C23: when a tick completes, every cell the scan visited carries that tick's
\* iteration value, a cell that a bot vacated by moving out of it while it was
\* processed there included.
C23_EveryVisitedCellStamped ==
    TickCompleted => Unstamped = {}

\* the bot attacked a live neighbour with more energy than the attack costs,
\* and mass_to_chance said no
FailedAttack ==
    /\ Resolved("TryEat")
    /\ last.seen = "Organism"
    /\ last.e0 > pre.config.attack_cost
    /\ ~last.chance
PreyBefore == cell_at(pre.field, Aimed.val)
PreyAfter == cell_at(world.field, Aimed.val)

\* C24: when a bot with energy > attack_cost resolves TryEat(dir) against an
\* Alive neighbour and the attack fails, the bot loses attack_cost energy, the
\* neighbour stays alive with its energy, minerals, code and ip unchanged, and
\* the neighbour's r7 is the byte of the direction opposite to dir (Up = 0,
\* Right = 1, Down = 2, Left = 3).
C24_FailedAttackMarksPrey ==
    FailedAttack =>
        /\ IsOrganism(BotAfter)
        /\ BotAfter.energy = last.e0 - pre.config.attack_cost
        /\ IsOrganism(PreyAfter)
        /\ PreyAfter.energy = PreyBefore.energy
        /\ PreyAfter.stored_minerals = PreyBefore.stored_minerals
        /\ PreyAfter.code = PreyBefore.code
        /\ PreyAfter.ip = PreyBefore.ip
        /\ PreyAfter.registers[7] =
              CASE last.action.dir = "Up" -> 2
                [] last.action.dir = "Right" -> 3
                [] last.action.dir = "Down" -> 0
                [] last.action.dir = "Left" -> 1

\* a failed attack to the Left, across the wrap from column 0: the prey's r7
\* says Right
C24_Witness ==
    /\ FailedAttack
    /\ last.action.dir = "Left"
    /\ last.pos = <<0, 0>>
    /\ PreyAfter.registers[7] = 1
    /\ PreyAfter.ip = 5
    /\ BotAfter.energy = 4

\* the action of the step was one of the malformed ones: a move at the wall or
\* at a cell that is not Empty, an attack at the wall or at an Empty cell, an
\* attack at a live neighbour by a bot that cannot pay for it
Malformed ==
    /\ last.kind \in {"action", "finish"}
    /\ \/ last.action.type = "TryMove" /\ last.seen \in {"None", "Organism", "DeadBody"}
       \/ last.action.type = "TryEat" /\ last.seen \in {"None", "Empty"}
       \/ /\ last.action.type = "TryEat"
          /\ last.seen = "Organism"
          /\ last.e0 <= world.config.attack_cost

Drained(e) == e - CeilDiv(e, world.config.max_cell_size)

\* C25: a malformed action (TryMove at the vertical wall or at a neighbour that
\* is not Empty, TryEat at an Empty cell or at the wall, TryEat at a live
\* neighbour with energy <= attack_cost) is a silent no-op: the step does not
\* fault, every cell stays where it was, and the bot's energy changes by the
\* postlude drain only.
C25_MalformedIsNoOp ==
    Malformed =>
        /\ ~last.fault
        /\ ChangedCells = {}
        /\ last.to = last.pos
        /\ IsOrganism(BotAfter)
        /\ BotAfter.energy = IF last.kind = "action" THEN last.e0 ELSE Drained(last.e0)

(***************************************************************************)
(* Dead bodies under the scheduler: a row of three cells with a dead body  *)
(* in the middle, a bot to its left that faces it, and to its right an     *)
(* Empty cell or a second bot (whose Right is the first bot, over the       *)
(* edge).  The bots eat, move, clone, share energy, share minerals, or     *)
(* photosynthesise until the scheduler splits them; a bot that starves     *)
(* leaves another body.                                                    *)
(***************************************************************************)
BodyPrograms ==
    {EatRight, MoveRight, CloneNow(255), ShareRight(3), MineralSharer, GreenProgram}

BodyWorlds ==
    {with_cells(empty(RowGrid[1], RowGrid[2], StepConfig),
                <<with_program(e, 2, p1, 1), DeadBody(StepConfig.dead_energy, 4), c>>) :
        e \in {1, 9}, p1 \in BodyPrograms,
        c \in {Empty} \cup {with_program(5, 2, p2, 2) : p2 \in BodyPrograms}}

InitBodies ==
    /\ world \in BodyWorlds
    /\ scan = 0
    /\ row = 0
    /\ panicked = FALSE
    /\ execs = <<0, 0>>
    /\ born = {}
    /\ visited = {}
    /\ last = NoLast
    /\ hits = 0
    /\ populated = 2
    /\ shiftIn = NoShift
    /\ shiftOut = NotShifted
    /\ pre = NoWorld
    /\ server = NoServer
    /\ internal_buffer = <<>>
    /\ printing = NotPrinting

TickBodies ==
    /\ world.measure_steps < BodyTicks
    /\ TickLoop
    /\ UNCHANGED <<server, internal_buffer, printing>>

SpecBodies == InitBodies /\ [][TickBodies]_vars

DeadBodies(w) == {k \in DOMAIN w.field.inner : IsDeadBody(w.field.inner[k])}
\* the step processed a bot whose action was TryEat aimed at cell k
AteAt(k) ==
    /\ last'.kind = "bot"
    /\ last'.action.type = "TryEat"
    /\ relative_shift(world.field, last'.pos, last'.action.dir) = Some(pos_of(world, k))

\* the forced split of the step put the child of the processed bot into cell k
SplitInto(k) ==
    /\ last'.split = Some(pos_of(world, k))
    /\ IsOrganism(world'.field.inner[k])
    /\ world'.field.inner[k].id \in born'

BodyStep ==
    \A k \in DeadBodies(world) :
        \/ world'.field.inner[k] = world.field.inner[k]
        \/ AteAt(k) /\ (IsEmpty(world'.field.inner[k]) \/ SplitInto(k))

\* C26: a dead body is changed by nothing but a TryEat aimed at it: through
\* every step of every tick (scan, move, clone, forced split, share) it keeps its
\* energy and minerals, and the TryEat of a neighbouring bot turns it into Empty
\* in one step, never into a smaller body (the forced split of the eater, later
\* in the same process_bot, may put the eater's child into the emptied cell).
C26_BodyKeptUntilEaten == [][BodyStep]_vars

\* in the second tick a bot at (0, 0) has eaten the body, which the first tick
\* had left as it was
C26_Witness ==
    /\ world.measure_steps = 1
    /\ last.kind = "bot"
    /\ last.action.type = "TryEat"
    /\ last.seen = "DeadBody"
    /\ last.pos = <<0, 0>>
    /\ IsEmpty(world.field.inner[1])
    /\ IsOrganism(world.field.inner[2])

\* the worker is at the end of its loop body, about to drop the guard
WorkerDone == server.pc["worker"] = "done"

C27_WorkerTicksOnce ==
    WorkerDone => server.worker_ticks = 1

\* C27: each time the worker acquires the mutex it performs exactly one
\* world.tick() before it releases the mutex if state.paused is false, and none
\* if state.paused is true; the flag does not change while the worker holds the
\* mutex.
C27_WorkerTicksOnceUnlessPaused ==
    /\ [](WorkerDone => server.worker_ticks = IF server.paused THEN 0 ELSE 1)
    /\ [](server.pc["worker"] \in {"idle", "locked", "ticking"} => server.worker_ticks = 0)
    /\ [](server.pc["worker"] = "ticking" => ~server.paused)
    /\ [][server.pc["worker"] # "idle" /\ server'.pc["worker"] # "idle"
              => server'.paused = server.paused]_vars

\* after a tick, a pause request has come in, and the worker has taken the mutex
\* and is about to release it without a tick
C27_Witness ==
    /\ WorkerDone
    /\ server.paused
    /\ server.worker_ticks = 0
    /\ world.measure_steps = 1

(***************************************************************************)
(* Organism::tick of an organism whose program is Clone(rate) in every     *)
(* position: the registers r3..r6 are written, an organism without energy  *)
(* returns Die, any other executes the Clone arm.  The energy runs over    *)
(* 0..MaxCloneStock beside minerals that run down or that are equal to it, *)
(* so that every stock and every rate occurs for the energy and, beside a  *)
(* positive energy, for the minerals.                                      *)
(***************************************************************************)
CloneStarts ==
    {set_cell(empty(1, 1, StepConfig), <<0, 0>>,
              with_program(x, m, uniform_program(Op("Clone", rate)), 1)) :
        <<x, m>> \in {<<y, MaxCloneStock - y>> : y \in 0..MaxCloneStock}
                        \cup {<<y, y>> : y \in 0..MaxCloneStock},
        rate \in 0..(U8 - 1)}

InitClone ==
    /\ world \in CloneStarts
    /\ last = [NoLast EXCEPT !.kind = "start", !.id = 1]
    /\ pre = NoWorld
    /\ scan = 0
    /\ row = 0
    /\ panicked = FALSE
    /\ execs = <<0>>
    /\ born = {}
    /\ visited = {}
    /\ hits = 0
    /\ populated = 0
    /\ shiftIn = NoShift
    /\ shiftOut = NotShifted
    /\ server = NoServer
    /\ internal_buffer = <<>>
    /\ printing = NotPrinting

\* Organism::tick of the organism, with the byte rnd drawn for register 3
ExecClone ==
    /\ last.kind = "start"
    /\ \E rnd \in RandBytes :
          LET bot == cell_at(world.field, <<0, 0>>)
              r == tick(bot, world, <<0, 0>>, rnd)
          IN  /\ world' = set_cell(world, <<0, 0>>, r.bot)
              /\ last' = [last EXCEPT !.kind = "instruction", !.action = r.action,
                                      !.e0 = bot.energy, !.m0 = bot.stored_minerals,
                                      !.executed = r.executed, !.ok = (r.executed = 1)]
    /\ pre' = world
    /\ UNCHANGED <<scan, row, panicked, execs, born, visited, hits, populated, shiftIn, shiftOut, server, internal_buffer, printing>>

SpecClone == InitClone /\ [][ExecClone]_vars

\* the parameter of the Clone opcode the organism executed
InheritRate == code_at(cell_at(pre.field, <<0, 0>>).code, cell_at(pre.field, <<0, 0>>).ip).arg

\* the child sizes of the claim: one division by 512
CloneSized ==
    /\ last.executed = 1
    /\ last.action.type = "TryClone"
    /\ last.action.a
         = (IF (last.e0 * InheritRate) \div 512 > world.config.start_energy
            THEN (last.e0 * InheritRate) \div 512
            ELSE world.config.start_energy)
    /\ last.action.b = (last.m0 * InheritRate) \div 512

\* C28 as stated: for every energy, stored_minerals and inheritRate in 0..255
\* the Clone opcode emits TryClone with child_energy = max(start_energy,
\* floor(energy * inheritRate / 512)) and child_minerals = floor(stored_minerals
\* * inheritRate / 512).
C28_CloneSizesFromZero ==
    last.kind = "instruction" => CloneSized

\* C28: for every energy in 1..255 and every stored_minerals and inheritRate in
\* 0..255 the Clone opcode emits TryClone with child_energy = max(start_energy,
\* floor(energy * inheritRate / 512)) and child_minerals = floor(stored_minerals
\* * inheritRate / 512): the division by 256 and then by 2 gives what one
\* division by 512 gives.  With energy 0 the organism returns Die and executes
\* no instruction.
C28_CloneSizes ==
    last.kind = "instruction" =>
        /\ last.e0 > 0 => CloneSized
        /\ last.e0 = 0 => last.executed = 0 /\ last.action.type = "Die"

\* energy 255 and rate 255 give the child 127, above start_energy, where the two
\* divisions drop a remainder each (65025 = 254 * 256 + 1, 254 = 127 * 2), and
\* minerals 255 give it 127 as well
C28_Witness ==
    /\ last.kind = "instruction"
    /\ last.e0 = 255
    /\ last.m0 = 255
    /\ InheritRate = 255
    /\ last.action.a = 127
    /\ last.action.b = 127

(***************************************************************************)
(* Two bots in one tick of a row of three cells.  Either the first bot     *)
(* moves Left out of cell 0 (over the edge, into cell 2) and the second    *)
(* bot, in cell 1, faces cell 0; or the first bot eats what cell 1 holds   *)
(* and the second bot, in cell 2, faces cell 1.  The second bot moves,     *)
(* clones, looks or eats.  pre is the world as it was when the tick        *)
(* started.                                                                *)
(***************************************************************************)
SweepOps == {Op("MoveRelative", 0), Op("Clone", 255), Op("LookRelative", 0), Op("Eat", 0)}
SweepEnergies == {3, 9}

SweepWorlds ==
    {with_cells(empty(RowGrid[1], RowGrid[2], StepConfig),
                <<with_program(e1, 0, Probe(3, Op("MoveRelative", 0)), 1),
                  with_program(e2, 0, Probe(3, op), 2),
                  Empty>>) :
        e1 \in SweepEnergies, e2 \in SweepEnergies, op \in SweepOps}
    \cup
    {with_cells(empty(RowGrid[1], RowGrid[2], StepConfig),
                <<with_program(e1, 0, Probe(1, Op("Eat", 0)), 1),
                  prey,
                  with_program(e2, 0, Probe(3, op), 2)>>) :
        e1 \in SweepEnergies, e2 \in SweepEnergies, op \in SweepOps,
        prey \in {DeadBody(StepConfig.dead_energy, 4), green(3, 3)}}

InitSweep ==
    /\ world \in SweepWorlds
    /\ pre = world
    /\ scan = 0
    /\ row = 0
    /\ panicked = FALSE
    /\ execs = <<0, 0, 0>>
    /\ born = {}
    /\ visited = {}
    /\ last = NoLast
    /\ hits = 0
    /\ populated = 3
    /\ shiftIn = NoShift
    /\ shiftOut = NotShifted
    /\ server = NoServer
    /\ internal_buffer = <<>>
    /\ printing = NotPrinting

TickSweep ==
    /\ world.measure_steps < SweepTicks
    /\ TickLoop
    /\ UNCHANGED <<server, internal_buffer, printing>>

SpecSweep == InitSweep /\ [][TickSweep]_vars

\* the organism the step processed, where the step left it
SweptBot == cell_at(world'.field, last'.to)
\* the cell it faced, in the world as the step found it
SweptTarget == relative_shift(world.field, last'.pos, get_direction(SweptBot))

\* a step that processes a bot facing a cell that is Empty now: a move takes the
\* bot there, a clone that the bot can pay puts the child there, a look reports
\* Empty
SweepStep ==
    (/\ last'.kind = "bot"
     /\ ~last'.fault
     /\ ~last'.died
     /\ SweptTarget.some
     /\ SweptTarget.val # last'.pos
     /\ IsEmpty(cell_at(world.field, SweptTarget.val)))
    => CASE last'.action.type = "TryMove" ->
               /\ last'.to = SweptTarget.val
               /\ IsOrganism(SweptBot)
               /\ SweptBot.id = last'.id
         [] last'.action.type = "TryClone" ->
               (last'.e0 >= 2 * last'.action.a)
                   => /\ last'.child = SweptTarget
                      /\ IsOrganism(cell_at(world'.field, SweptTarget.val))
                      /\ cell_at(world'.field, SweptTarget.val).id \in born'
         [] last'.action.type = "None"
                /\ code_at(SweptBot.code, 2) = Op("LookRelative", 0) ->
               SweptBot.registers[0] = 0
         [] OTHER -> last'.to = last'.pos

\* C29: there is no snapshot inside a tick: a bot scanned later in the row-major
\* order that looks at, moves into or clones into a cell which a bot scanned
\* earlier in the same tick has vacated (by moving) or emptied (by eating) finds
\* it Empty and can occupy it in that same tick.
C29_NoSnapshot == [][SweepStep]_vars

\* in the first tick the second bot has moved into the cell that held another
\* organism or a body when the tick started
C29_Witness ==
    /\ world.measure_steps = 0
    /\ last.kind = "bot"
    /\ last.id = 2
    /\ last.action.type = "TryMove"
    /\ last.to # last.pos
    /\ ~IsEmpty(cell_at(pre.field, last.to))
    /\ IsOrganism(cell_at(world.field, last.to))
    /\ cell_at(world.field, last.to).id = 2

(***************************************************************************)
(* ObjectCache<N>: a free list of detached organism slots.                 *)
(* internal_buffer is a heapless::Vec of capacity N: push appends and      *)
(* fails on a full vector, handing the item back; pop removes and returns  *)
(* the last element, or None on an empty vector.                           *)
(***************************************************************************)
\* the capacity N of the cache
N == 3

\* Organism::default
Default == green(20, 0)

\* the slots handed to store_drop
CacheItems == {with_program(e, 0, IdleProgram, e) : e \in 1..3}

\* ObjectCache::new
new == <<>>

store_drop_always(buffer, item) == [buffer |-> Append(buffer, item), result |-> TRUE]

\* ObjectCache::store_drop: internal_buffer.push(item).is_ok()
store_drop(buffer, item) ==
    IF Len(buffer) < N
    THEN [buffer |-> Append(buffer, item), result |-> TRUE]
    ELSE [buffer |-> buffer, result |-> FALSE]

\* ObjectCache::get_alloc: internal_buffer.pop().unwrap_or_else(|| Box::new(Default::default()))
get_alloc(buffer) ==
    IF Len(buffer) > 0
    THEN [buffer |-> SubSeq(buffer, 1, Len(buffer) - 1), result |-> buffer[Len(buffer)]]
    ELSE [buffer |-> buffer, result |-> Default]

\* history of the last call on the cache
NoCall == [kind |-> "new", item |-> Empty, stored |-> FALSE, slot |-> Empty, before |-> <<>>]

InitCache ==
    /\ internal_buffer = new
    /\ printing = NotPrinting
    /\ last = NoCall
    /\ world = empty(1, 1, SmallConfig)
    /\ scan = 0
    /\ row = 0
    /\ panicked = FALSE
    /\ execs = <<>>
    /\ born = {}
    /\ visited = {}
    /\ hits = 0
    /\ populated = 0
    /\ shiftIn = NoShift
    /\ shiftOut = NotShifted
    /\ pre = NoWorld
    /\ server = NoServer

StoreDrop ==
    /\ \E item \in CacheItems :
          LET r == store_drop(internal_buffer, item)
          IN /\ internal_buffer' = r.buffer
             /\ last' = [kind |-> "store_drop", item |-> item, stored |-> r.result,
                         slot |-> Empty, before |-> internal_buffer]
    /\ UNCHANGED <<world, scan, row, panicked, execs, born, visited, hits, populated, shiftIn,
                   shiftOut, pre, server, printing>>

GetAlloc ==
    /\ LET r == get_alloc(internal_buffer)
       IN /\ internal_buffer' = r.buffer
          /\ last' = [kind |-> "get_alloc", item |-> Empty, stored |-> FALSE,
                      slot |-> r.result, before |-> internal_buffer]
    /\ UNCHANGED <<world, scan, row, panicked, execs, born, visited, hits, populated, shiftIn,
                   shiftOut, pre, server, printing>>

NextCache == StoreDrop \/ GetAlloc

SpecCache == InitCache /\ [][NextCache]_vars

\* C30: after any sequence of store_drop and get_alloc calls the pool holds at
\* most N slots; store_drop on a pool of N slots returns false and leaves the
\* pool as it was, store_drop on a smaller pool returns true and adds the slot;
\* get_alloc always returns a slot: the most recently stored one, taken out of
\* the pool, when the pool is not empty, and a fresh default one when it is.
C30_PoolBounded ==
    /\ Len(internal_buffer) <= N
    /\ last.kind = "store_drop" =>
          /\ Len(last.before) = N => ~last.stored /\ internal_buffer = last.before
          /\ Len(last.before) < N =>
                /\ last.stored
                /\ Len(internal_buffer) = Len(last.before) + 1
                /\ internal_buffer = Append(last.before, last.item)
    /\ last.kind = "get_alloc" =>
          /\ IsOrganism(last.slot)
          /\ last.before # <<>> =>
                /\ last.slot = last.before[Len(last.before)]
                /\ Len(internal_buffer) = Len(last.before) - 1
                /\ \A k \in 1..Len(internal_buffer) : internal_buffer[k] = last.before[k]
          /\ last.before = <<>> => last.slot = Default /\ internal_buffer = <<>>

\* a store_drop on a full pool was refused
C30_Witness ==
    /\ last.kind = "store_drop"
    /\ Len(last.before) = N
    /\ ~last.stored
    /\ Len(internal_buffer) = N

(***************************************************************************)
(* Residents of a tick: the organisms that were in the grid when the tick  *)
(* started, which are the organisms of the grid not born in the tick.      *)
(***************************************************************************)
Residents(w) == {k \in Organisms(w) : w.field.inner[k].id \notin born}
ExecsOf(w, k) == execs[w.field.inner[k].id]

\* C31: when a tick starts no cell carries the stamp of the running iteration
\* (the iteration counter has not wrapped), and no resident is skipped: when the
\* tick completes, every organism that was in the grid when the tick started and
\* is still in it has been executed exactly once in that tick.
C31_ResidentsExecutedOnce ==
    /\ (scan = 0 /\ ~panicked) =>
          \A k \in DOMAIN world.updates : world.updates[k] # world.iteration
    /\ TickCompleted => \A k \in Residents(world) : ExecsOf(world, k) = 1

(***************************************************************************)
(* Running out of energy.  A row of three cells: an organism in the middle *)
(* that idles, shares its energy away towards the wall or attacks its      *)
(* right neighbour, between neighbours that share energy with it, attack   *)
(* it or idle.  pre is the last world in which an organism had energy 0.   *)
(***************************************************************************)
ZeroPrograms == {IdleProgram, ShareUp(3), EatRight}
ZeroEnergies == {1, 2, 3}
ZeroLeft == {Empty} \cup {with_program(7, 0, q, 1) : q \in {ShareRight(3), EatRight}}
ZeroRight ==
    {Empty} \cup {with_program(7, 0, Probe(3, op), 3) :
                      op \in {Op("Share", 0), Op("Eat", 0), Op("LoadInt", 0)}}

ZeroWorlds ==
    {with_cells(empty(RowGrid[1], RowGrid[2], StepConfig),
                <<l, with_program(e, 0, prog, 2), r>>) :
        l \in ZeroLeft, r \in ZeroRight, e \in ZeroEnergies, prog \in ZeroPrograms}

Exhausted(w) == {k \in Organisms(w) : w.field.inner[k].energy = 0}

InitZero ==
    /\ world \in ZeroWorlds
    /\ pre = world
    /\ scan = 0
    /\ row = 0
    /\ panicked = FALSE
    /\ execs = <<0, 0, 0>>
    /\ born = {}
    /\ visited = {}
    /\ last = NoLast
    /\ hits = 0
    /\ populated = 3
    /\ shiftIn = NoShift
    /\ shiftOut = NotShifted
    /\ server = NoServer
    /\ internal_buffer = <<>>
    /\ printing = NotPrinting

\* one iteration of the loop of World::tick
TickZero ==
    /\ world.measure_steps < ZeroTicks
    /\ ~panicked
    /\ TickBody(tick_pos(world, scan, row),
                cell_at(world.field, tick_pos(world, scan, row)),
                Len(execs) + 1)
    /\ scan' = IF panicked' THEN scan ELSE next_scan(world, scan)
    /\ pre' = IF Exhausted(world') # {} THEN world' ELSE pre
    /\ UNCHANGED <<populated, shiftIn, shiftOut, server, internal_buffer, printing>>

SpecZero == InitZero /\ [][TickZero]_vars

\* the step processed another bot, whose action was aimed at cell k
AimedAt(k, type) ==
    /\ last'.kind = "bot"
    /\ last'.action.type = type
    /\ relative_shift(world.field, last'.pos, last'.action.dir) = Some(pos_of(world, k))
    /\ last'.pos # pos_of(world, k)

\* the organism of cell k is still there after the step, with energy 0 unless a
\* neighbour shared energy with it
StaysAlive(k) ==
    /\ IsOrganism(world'.field.inner[k])
    /\ world'.field.inner[k].id = world.field.inner[k].id
    /\ world'.field.inner[k].energy = 0 \/ AimedAt(k, "ShareEnergy")

\* the step was the organism's own VM execution, which returned Die
DiesExecuted(k) ==
    /\ last'.kind = "bot"
    /\ last'.pos = pos_of(world, k)
    /\ last'.id = world.field.inner[k].id
    /\ last'.e0 = 0
    /\ last'.died
    /\ last'.action.type = "Die"
    /\ IsDeadBody(world'.field.inner[k])

\* a neighbour ate the organism
Eaten(k) ==
    /\ AimedAt(k, "TryEat")
    /\ \/ IsEmpty(world'.field.inner[k])
       \/ IsOrganism(world'.field.inner[k]) /\ world'.field.inner[k].id \in born'

\* the step in which a bot was processed: it returned Die exactly if its energy
\* was 0 when Organism::tick was called, and otherwise ran at least one
\* instruction and is still an organism, whatever energy it is left with
DiesOnlyExecuted ==
    (last.kind = "bot" /\ ~last.fault) =>
        /\ last.died <=> last.e0 = 0
        /\ last.died <=> last.action.type = "Die"
        /\ last.e0 > 0 =>
              /\ last.executed >= 1
              /\ IsOrganism(cell_at(world.field, last.to))
              /\ cell_at(world.field, last.to).id = last.id

\* C32 as stated: an organism with energy 0 stays Alive until its own next VM
\* execution.
C32_ZeroStaysUntilExecuted ==
    [][\A k \in Exhausted(world) : StaysAlive(k) \/ DiesExecuted(k)]_vars

\* C32: an organism whose energy reaches 0 does not die at that moment: it
\* stays Alive with energy 0 until its own next VM execution, unless a
\* neighbour eats it first, and if a neighbour credits it k > 0 energy through
\* ShareEnergy before that execution it does not emit Die and keeps running.
C32_ZeroStaysUnlessEaten ==
    /\ [](DiesOnlyExecuted)
    /\ [][\A k \in Exhausted(world) : StaysAlive(k) \/ DiesExecuted(k) \/ Eaten(k)]_vars

\* an organism that had energy 0 and got energy from a neighbour has been
\* executed, did not return Die and is in the grid
C32_Witness ==
    /\ last.kind = "bot"
    /\ ~last.died
    /\ last.e0 > 0
    /\ last.executed >= 1
    /\ \E k \in Exhausted(pre) : pre.field.inner[k].id = last.id
    /\ IsOrganism(cell_at(world.field, last.to))
    /\ cell_at(world.field, last.to).id = last.id

(***************************************************************************)
(* One call of World::process_bot on a grid of 3 x 3 cells.  The bot faces *)
(* direction d and moves, eats, clones or shares; the cell it faces is     *)
(* Empty, a dead body or an organism, and every other cell is Empty or     *)
(* every other cell holds an organism.  pre is the world before the call,  *)
(* last.rdir the direction Direction::get_random() gave for the split.     *)
(***************************************************************************)
FrameGrid == <<3, 3>>
FrameOps ==
    {Op("MoveRelative", 0), Op("Eat", 0), Op("Clone", 255), Op("Share", 0),
     Op("ShareMinerals", 0), Op("LookRelative", 0)}
FramePositions == {<<1, 1>>, <<0, 0>>, <<2, 2>>, <<0, 2>>}
FrameEnergies == {0, 9, 20}
FrameFaced == {Empty, DeadBody(StepConfig.dead_energy, 4), green(3, 2)}
FrameOthers == {Empty, green(3, 2)}

\* the bot at pos, the cell c where its direction d points, and the cell o in
\* every other place
FrameWorld(pos, d, op, e, c, o) ==
    LET w0 == empty(FrameGrid[1], FrameGrid[2], StepConfig)
        t == relative_shift(w0.field, pos, direction_from_u8(d))
    IN  [w0 EXCEPT !.field.inner =
            [k \in DOMAIN w0.field.inner |->
                IF k = field_index(w0.field, pos) THEN with_program(e, 3, Probe(d, op), 1)
                ELSE IF t.some /\ k = field_index(w0.field, t.val) THEN c
                ELSE o]]

FrameStarts ==
    {[w |-> FrameWorld(pos, d, op, e, c, o), pos |-> pos] :
        pos \in FramePositions, d \in 0..3, op \in FrameOps, e \in FrameEnergies,
        c \in FrameFaced, o \in FrameOthers}

InitFrame ==
    /\ \E st \in FrameStarts :
          /\ world = st.w
          /\ last = [NoLast EXCEPT !.kind = "start", !.pos = st.pos, !.to = st.pos, !.id = 1]
    /\ pre = NoWorld
    /\ scan = 0
    /\ row = 0
    /\ panicked = FALSE
    /\ execs = <<0, 0>>
    /\ born = {}
    /\ visited = {}
    /\ hits = 0
    /\ populated = 0
    /\ shiftIn = NoShift
    /\ shiftOut = NotShifted
    /\ server = NoServer
    /\ internal_buffer = <<>>
    /\ printing = NotPrinting

\* World::process_bot on the bot at last.pos
ProcessBot ==
    /\ last.kind = "start"
    /\ \E inp \in StepInputs(world, last.pos, hits, Len(execs) + 1) :
          LET r == process_bot(world, last.pos, inp, Len(execs) + 1)
          IN  /\ world' = r.w
              /\ panicked' = r.fault
              /\ last' = [BotLast(world, last.pos, cell_at(world.field, last.pos), r)
                             EXCEPT !.rdir = inp.rdir]
              /\ execs' = Bump(execs, 1) \o Zeros(Kids(r))
              /\ born' = (Len(execs) + 1)..(Len(execs) + Kids(r))
              /\ visited' = visited
    /\ pre' = world
    /\ UNCHANGED <<scan, row, hits, populated, shiftIn, shiftOut, server, internal_buffer, printing>>

SpecFrame == InitFrame /\ [][ProcessBot]_vars

\* the cells process_bot changed
FrameChanged ==
    {k \in DOMAIN world.field.inner : world.field.inner[k] # pre.field.inner[k]}
\* the neighbour in the direction of the action process_bot got from the VM
FrameAimed ==
    IF last.action.type \in {"TryEat", "TryMove", "TryClone", "ShareEnergy", "ShareMinerals"}
          /\ Aimed.some
    THEN {field_index(pre.field, Aimed.val)}
    ELSE {}
\* the neighbour of the bot's position after the action in the direction drawn
\* for the forced split
FrameSplit ==
    IF relative_shift(pre.field, last.to, last.rdir).some
    THEN {field_index(pre.field, relative_shift(pre.field, last.to, last.rdir).val)}
    ELSE {}

\* C33: processing one bot at (i, j) changes at most three cells of the grid:
\* (i, j), the neighbour in the direction of the emitted action, and the
\* neighbour in the drawn forced-split direction of the bot's position after
\* the action; every other cell, and every stamp other than the one at the
\* bot's final position, is as it was.
C33_ProcessBotFrame ==
    (last.kind = "bot" /\ ~last.fault) =>
        /\ FrameChanged \subseteq
              ({field_index(pre.field, last.pos)} \cup FrameAimed \cup FrameSplit)
        /\ Cardinality(FrameChanged) <= 3
        /\ \A k \in DOMAIN world.updates :
              k # field_index(world.field, last.to) => world.updates[k] = pre.updates[k]
        /\ world.updates[field_index(world.field, last.to)] = pre.iteration
        /\ world.iteration = pre.iteration

\* the bot moved and its forced split put a child into a third cell
C33_Witness ==
    /\ last.kind = "bot"
    /\ ~last.fault
    /\ last.action.type = "TryMove"
    /\ last.to # last.pos
    /\ last.split.some
    /\ last.split.val # last.pos
    /\ Cardinality(FrameChanged) = 3
    /\ FrameChanged = {field_index(pre.field, last.pos)} \cup FrameAimed \cup FrameSplit

(***************************************************************************)
(* Reproduction, in the stages of SpecStep: a TryClone is resolved in the  *)
(* stage of run_bot_action, the forced split in the last stage, which ends *)
(* with the postlude drain of the parent.                                  *)
(***************************************************************************)
\* the energy of the organisms the last stage created
ChildEnergies == {world.field.inner[k].energy : k \in NewOrganisms}
\* the parent's energy after the forced split, before the postlude drained it
SplitParentEnergy == BotBefore.energy - SplitSize.energy

\* C34: every organism a TryClone creates starts with energy >= start_energy,
\* and after a successful clone or forced split the parent keeps at least as
\* much energy as it gave to the child; with start_energy > 0 no organism is
\* created with energy 0 and no parent reaches energy 0 by reproducing.
C34_ReproductionKeepsEnergy ==
    /\ (Resolved("TryClone") /\ NewOrganisms # {}) =>
          /\ \A c \in ChildEnergies :
                /\ c = last.action.a
                /\ c >= world.config.start_energy
                /\ BotAfter.energy >= c
          /\ BotAfter.energy = BotBefore.energy - last.action.a
          /\ BotAfter.energy > 0
    /\ (SplitDue /\ ~last.fault /\ NewOrganisms # {}) =>
          /\ \A c \in ChildEnergies :
                /\ c = SplitSize.energy
                /\ SplitParentEnergy >= c
          /\ SplitParentEnergy > 0
          /\ BotAfter.energy = Drained(SplitParentEnergy)
    /\ (last.kind \in {"prelude", "action", "finish"} /\ world.config.start_energy > 0) =>
          \A c \in ChildEnergies : c > 0

\* a parent with twice the start energy cloned: the child got start_energy and
\* the parent kept exactly as much
C34_Witness ==
    /\ Resolved("TryClone")
    /\ NewOrganisms # {}
    /\ ChildEnergies = {world.config.start_energy}
    /\ BotAfter.energy = world.config.start_energy
    /\ BotBefore.energy = 2 * world.config.start_energy

(***************************************************************************)
(* Program::print_minimized (code.rs).  printing holds the program, the    *)
(* argument ip and the locals of the call: markers is the set of the       *)
(* indices whose marker is true, resume_point the stack, out the lines     *)
(* returned, each the index and the instruction display_postioned formats. *)
(***************************************************************************)
\* rows 0..4: SkipZero at 0, a jump forward at 1, a jump back to 0 at 3, and a
\* loop of one instruction everywhere else
SkipAndJump ==
    program_of(<<Op("SkipZero", 0), Op("JumpUnconditional", 3), Op("LoadInt", 0),
                 Op("JumpUnconditional", 253)>>, Op("JumpUnconditional", 0))

\* the programs printed from every ip
PrintPrograms ==
    {JumpLoop, SkipAndJump,
     uniform_program(Op("JumpUnconditional", 128)),
     uniform_program(Op("JumpUnconditional", 64))}
\* the programs printed from the ips of DeepStarts: the resume stack grows to
\* 128 entries on the first, the second runs over the end of the code, the
\* third is printed whole
DeepPrograms == {uniform_program(Op("SkipZero", 0)), TwoLoop, IdleProgram}
DeepStarts == {0, 1, 2, 100, 254, 255}
PrintCalls ==
    (PrintPrograms \X (0..(CODE_SIZE - 1))) \cup (DeepPrograms \X DeepStarts)

\* the locals before the loop
print_minimized_start(code, ip) ==
    [pc |-> "loop", code |-> code, start |-> ip, ip |-> ip, markers |-> {},
     resume_point |-> <<0>>, out |-> <<>>]

\* the condition of the while loop
print_minimized_continues(p) == p.ip \notin p.markers \/ p.resume_point # <<>>

print_minimized_body_no_resume(p) ==
    IF p.ip \in p.markers
    THEN [p EXCEPT !.ip = p.resume_point[Len(p.resume_point)],
                   !.resume_point = SubSeq(p.resume_point, 1, Len(p.resume_point) - 1)]
    ELSE IF code_at(p.code, p.ip).op = "JumpUnconditional"
    THEN [p EXCEPT !.markers = @ \cup {p.ip},
                   !.ip = (p.ip + code_at(p.code, p.ip).arg) % CODE_SIZE]
    ELSE IF code_at(p.code, p.ip).op = "SkipZero"
    THEN [p EXCEPT !.markers = @ \cup {p.ip},
                   !.ip = (p.ip + 2) % CODE_SIZE]
    ELSE [p EXCEPT !.markers = @ \cup {p.ip},
                   !.ip = (p.ip + 1) % CODE_SIZE]

\* one iteration of the while loop
print_minimized_body(p) ==
    IF p.ip \in p.markers
    THEN [p EXCEPT !.ip = p.resume_point[Len(p.resume_point)],
                   !.resume_point = SubSeq(p.resume_point, 1, Len(p.resume_point) - 1)]
    ELSE IF code_at(p.code, p.ip).op = "JumpUnconditional"
    THEN [p EXCEPT !.markers = @ \cup {p.ip},
                   !.ip = (p.ip + code_at(p.code, p.ip).arg) % CODE_SIZE]
    ELSE IF code_at(p.code, p.ip).op = "SkipZero"
    THEN [p EXCEPT !.markers = @ \cup {p.ip},
                   !.resume_point = Append(@, (p.ip + 1) % CODE_SIZE),
                   !.ip = (p.ip + 2) % CODE_SIZE]
    ELSE [p EXCEPT !.markers = @ \cup {p.ip},
                   !.ip = (p.ip + 1) % CODE_SIZE]

\* self.code.iter().enumerate().filter_map(..): the marked instructions of the
\* indices lo..(hi - 1), in the order of the indices
RECURSIVE print_minimized_lines(_, _, _, _)
print_minimized_lines(code, markers, lo, hi) ==
    IF hi - lo = 1
    THEN IF lo \in markers THEN <<[idx |-> lo, instr |-> code_at(code, lo)]>> ELSE <<>>
    ELSE print_minimized_lines(code, markers, lo, lo + (hi - lo) \div 2)
             \o print_minimized_lines(code, markers, lo + (hi - lo) \div 2, hi)

InitPrint ==
    /\ \E call \in PrintCalls : printing = print_minimized_start(call[1], call[2])
    /\ world = empty(1, 1, SmallConfig)
    /\ scan = 0
    /\ row = 0
    /\ panicked = FALSE
    /\ execs = <<>>
    /\ born = {}
    /\ visited = {}
    /\ last = NoLast
    /\ hits = 0
    /\ populated = 0
    /\ shiftIn = NoShift
    /\ shiftOut = NotShifted
    /\ pre = NoWorld
    /\ server = NoServer
    /\ internal_buffer = <<>>

PrintLoop ==
    /\ printing.pc = "loop"
    /\ print_minimized_continues(printing)
    /\ printing' = print_minimized_body(printing)
    /\ UNCHANGED <<world, scan, row, panicked, execs, born, visited, last, hits, populated, shiftIn,
                   shiftOut, pre, server, internal_buffer>>

PrintReturn ==
    /\ printing.pc = "loop"
    /\ ~print_minimized_continues(printing)
    /\ printing' = [printing EXCEPT
                       !.pc = "returned",
                       !.out = print_minimized_lines(printing.code, printing.markers, 0,
                                                    CODE_SIZE)]
    /\ UNCHANGED <<world, scan, row, panicked, execs, born, visited, last, hits, populated, shiftIn,
                   shiftOut, pre, server, internal_buffer>>

NextPrint == PrintLoop \/ PrintReturn

SpecPrint == InitPrint /\ [][NextPrint]_vars

\* the call runs on: it is one thread of straight-line code
FairPrint == SpecPrint /\ WF_vars(NextPrint)

\* where control can go from the instruction at k
Successors(code, k) ==
    IF code_at(code, k).op = "JumpUnconditional"
    THEN {(k + code_at(code, k).arg) % CODE_SIZE}
    ELSE IF code_at(code, k).op = "SkipZero"
    THEN {(k + 1) % CODE_SIZE, (k + 2) % CODE_SIZE}
    ELSE {(k + 1) % CODE_SIZE}

\* x.all: indices found reachable; x.new: those of them not followed yet
Follow(code, x) ==
    [all |-> x.all \cup UNION {Successors(code, k) : k \in x.new},
     new |-> (UNION {Successors(code, k) : k \in x.new}) \ x.all]
Follow4(code, x) == Follow(code, Follow(code, Follow(code, Follow(code, x))))
Follow16(code, x) == Follow4(code, Follow4(code, Follow4(code, Follow4(code, x))))

\* the indices reachable from the set S
RECURSIVE Closure(_, _)
Closure(code, x) == IF x.new = {} THEN x.all ELSE Closure(code, Follow16(code, x))
ReachableFrom(code, S) == Closure(code, [all |-> S, new |-> S])

Printed == {printing.out[n].idx : n \in 1..Len(printing.out)}

\* C35: for every program and every start ip in 0..255 print_minimized
\* terminates, and the instructions it prints are exactly those reachable from
\* ip or from index 0 by following (ip + offset) mod 256 for
\* JumpUnconditional(offset), both (ip + 1) mod 256 and (ip + 2) mod 256 for
\* SkipZero, and (ip + 1) mod 256 for every other opcode.
C35_PrintsReachable ==
    /\ <>(printing.pc = "returned")
    /\ [](printing.pc = "returned" =>
            /\ Printed = ReachableFrom(printing.code, {printing.start, 0})
            /\ Len(printing.out) = Cardinality(Printed)
            /\ \A n \in 1..Len(printing.out) :
                  printing.out[n].instr = code_at(printing.code, printing.out[n].idx))

\* a call from ip 100 has returned the five instructions reached from index 0,
\* through both branches of the SkipZero, and the one at 100, and no other
C35_Witness ==
    /\ printing.pc = "returned"
    /\ printing.code = SkipAndJump
    /\ printing.start = 100
    /\ Printed = {0, 1, 2, 3, 4, 100}

====
